---- MODULE Spec2Model ----
(***************************************************************************)
(* The sample routing engine of VILLASnode: src/lib/path.c.                *)
(*                                                                         *)
(* A path owns a pool of samples and a queue.  Its receive thread          *)
(* (path_run) takes samples from the pool, lets the source node fill them, *)
(* runs the read hooks, pushes the survivors to the queue, lets the hooks  *)
(* release what left their history window and, at rate 0, sends to every   *)
(* destination (path_write).  At a rate above 0 a second thread            *)
(* (path_run_async) sends at every timer tick.                             *)
(*                                                                         *)
(* The cursors of a path's queue are fields of the nodes and hooks:        *)
(* the write cursor is in->received, a destination's reader cursor is its  *)
(* node's sent, a hook's is its head.                                      *)
(*                                                                         *)
(* The pool, the queue, the hook chain, the timer and error() are not part *)
(* of the sources at hand; they are modelled after the specification text. *)
(***************************************************************************)
EXTENDS Integers, Sequences, FiniteSets, TLC

\* ---------------------------------------------------------------- bounds
\* queuelen of every path: slots of its queue and samples of its pool
queuelen == 2
\* samples a source node delivers at most
MaxSeq == 3
\* timer ticks of a send thread
MaxTicks == 2
\* largest number of expirations one timerfd_wait reports
MaxExpir == 2

Nodes == {"A", "B", "C"}
Paths == {1, 2}

PATH_INVALID == "PATH_INVALID"
PATH_CREATED == "PATH_CREATED"
PATH_RUNNING == "PATH_RUNNING"
PATH_STOPPED == "PATH_STOPPED"

HOOK_READ == "HOOK_READ"
HOOK_WRITE == "HOOK_WRITE"
HOOK_ASYNC == "HOOK_ASYNC"
HOOK_PATH_START == "HOOK_PATH_START"

VARIABLES
    node,   \* struct node: vectorize, received, sent; sequence: the source's counter
    path,   \* struct path
    rt,     \* path_run: the locals of the receive thread
    st,     \* path_run_async: the position of the send thread; path_stop: its steps done
    pw,     \* path_write: the locals of the running send routine
    gh,     \* observations: what was pushed, delivered, skipped, ticked
    codec,  \* c37_118: the Frame, the buffer and the Result of a Parser at work
    daemon, \* server: the position of main and of quit, the paths, the nodes
    mqtt,   \* mqtt: the clients, the broker's loop thread, the calls of a node
    ngsi,   \* ngsi: the context of a node and the requests it has issued
    opal,   \* opal: a call of opal_read or opal_write and what it touched
    cfg,    \* cfg: the setting parsed and the list of paths
    lists,  \* list: the elements of a struct list and the calls made on it
    mapping \* mapping: the entries of a mapping and the Sample it has updated

\* the path engine's state, and the state of the other parts of the program
engine == <<node, path, rt, st, pw, gh>>
elsewhere == <<codec, daemon, mqtt, ngsi, opal, cfg, lists, mapping>>
vars == <<node, path, rt, st, pw, gh, codec, daemon, mqtt, ngsi, opal, cfg, lists, mapping>>

\* a part of the program that is not at work in a specification
Off == "off"

\* ---------------------------------------------------------------- helpers
Min(a, b) == IF a < b THEN a ELSE b
Max(a, b) == IF a > b THEN a ELSE b

RECURSIVE SeqMin(_)
SeqMin(s) == IF Len(s) = 1 THEN s[1] ELSE Min(s[1], SeqMin(Tail(s)))

\* the elements of s at the increasing indices of the set idx
RECURSIVE Pick(_, _, _)
Pick(s, idx, i) ==
    IF i > Len(s) THEN <<>>
    ELSE (IF i \in idx THEN <<s[i]>> ELSE <<>>) \o Pick(s, idx, i + 1)

Range(s) == {s[i] : i \in DOMAIN s}

\* ---------------------------------------------------------------- pool
\* acquire(n): up to n samples from the top of the free-list (LIFO)
sample_get_many(pool, n) ==
    LET k == Min(n, Len(pool))
    IN [cnt  |-> k,
        smps |-> [i \in 1..k |-> pool[Len(pool) - i + 1]],
        pool |-> SubSeq(pool, 1, Len(pool) - k)]

\* release(samples, k): the first k samples go back on the free-list
pool_put_many(pool, smps, k) == pool \o SubSeq(smps, 1, k)

\* pool_init_mmap(pool, len, cnt): cnt free samples
pool_init_mmap(cnt) == [i \in 1..cnt |-> i]

\* ---------------------------------------------------------------- queue
\* queue_init: size empty slots
queue_init(size) == [i \in 0..(size - 1) |-> 0]

\* push_many: the span that fits without overrunning the slowest reader
queue_push_many(q, smps, n, tail, minr) ==
    LET fits   == queuelen - (tail - minr)
        pushed == Max(0, Min(n, fits))
    IN [cnt   |-> pushed,
        queue |-> [i \in DOMAIN q |->
                     IF \E j \in 1..pushed : (tail + j - 1) % queuelen = i
                     THEN smps[CHOOSE j \in 1..pushed : (tail + j - 1) % queuelen = i]
                     ELSE q[i]],
        tail  |-> tail + pushed]

\* the number of the positions pos, pos + 1, ..., at most n of them, before the
\* write cursor whose slot holds a sample
RECURSIVE Filled(_, _, _, _)
Filled(q, n, pos, tail) ==
    IF n <= 0 \/ pos >= tail \/ pos < 0 THEN 0
    ELSE IF q[pos % queuelen] = 0 THEN 0
    ELSE 1 + Filled(q, n - 1, pos + 1, tail)

\* pull_many: advances the reader by what is there, at most n; the samples
\* every other reader has passed too are released and leave their slots.
\* others: the cursors of the other readers of the queue.
queue_pull_many(q, n, head, tail, others) ==
    LET k == Filled(q, n, head, tail)
        released == IF others = <<>> THEN k
                    ELSE Max(0, Min(k, SeqMin(others) - head))
    IN [cnt      |-> k,
        released |-> released,
        smps     |-> [i \in 1..k |-> q[(head + i - 1) % queuelen]],
        queue    |-> [i \in DOMAIN q |->
                        IF \E j \in 1..released : (head + j - 1) % queuelen = i
                        THEN 0 ELSE q[i]],
        head     |-> head + k]

\* peek: the samples at pos, pos + 1, ... that are in the queue, at most n
queue_get_many(q, n, pos, tail, minr) ==
    LET k == IF pos < minr THEN 0 ELSE Filled(q, n, pos, tail)
    IN [cnt  |-> k,
        smps |-> [i \in 1..k |-> q[(pos + i - 1) % queuelen]]]

\* ---------------------------------------------------------------- hooks
\* hook_run over smps[1..n]: the samples at the indices keep survive and are
\* moved to the front in their order, the skipped ones follow them
hook_run(smps, n, keep) ==
    Pick(smps, keep, 1) \o Pick(smps, (1..n) \ keep, 1) \o SubSeq(smps, n + 1, Len(smps))

\* the verdicts a chain can reach for n samples: a subset to keep, everything
\* when no hook of the path is of the kind `when`
hook_verdicts(p, n, when) ==
    IF \E i \in DOMAIN path[p].hooks : when \in path[p].hooks[i].type
    THEN SUBSET (1..n)
    ELSE {1..n}

\* ---------------------------------------------------------------- configuration
\* the hook lists a path is configured with
HookLists ==
    { <<>>,
      <<[type |-> {HOOK_READ, HOOK_WRITE, HOOK_ASYNC}, history |-> 1, head |-> 0]>> }

NoPath ==
    [state |-> PATH_INVALID, in |-> "A", destinations |-> <<>>, hooks |-> <<>>,
     rate |-> 0, skipped |-> 0, overrun |-> 0, readers |-> 0,
     pool |-> <<>>, queue |-> queue_init(queuelen),
     samples |-> [i \in 1..queuelen |-> 0]]

\* path_init: the lists and the state; the rest of the struct is zero
path_init(in, dests, hooks, rate) ==
    [NoPath EXCEPT !.state = PATH_CREATED, !.in = in, !.destinations = dests,
                   !.hooks = hooks, !.rate = rate]

\* one path A => B or A => B, C with any hooks and vectorize factors, at rate 0
\* or (A => B) at a rate above 0
SingleConfigs ==
    { [vectorize |-> [n \in Nodes |-> IF n = "A" THEN va ELSE IF n = "B" THEN vb ELSE 1],
       paths |-> [p \in Paths |-> IF p = 1 THEN path_init("A", d[1], h, d[2]) ELSE NoPath]] :
      va \in {1, 2}, vb \in {1, 2},
      d \in {<< <<"B">>, 0 >>, << <<"B", "C">>, 0 >>, << <<"B">>, 1 >>},
      h \in HookLists }

\* two paths that share their source node or their destination node
SharedConfigs ==
    { [vectorize |-> [n \in Nodes |-> 1],
       paths |-> [p \in Paths |-> IF p = 1 THEN path_init("A", <<"B">>, <<>>, 0)
                                           ELSE path_init(c[1], c[2], <<>>, 0)]] :
      c \in { <<"A", <<"C">>>>, <<"C", <<"B">>>> } }

\* one path A => B, C at a rate above 0
RateConfigs ==
    { [vectorize |-> [n \in Nodes |-> 1],
       paths |-> [p \in Paths |-> IF p = 1 THEN path_init("A", <<"B", "C">>, <<>>, 1)
                                           ELSE NoPath]] }

\* one path from A with no destination
ZeroConfigs ==
    { [vectorize |-> [n \in Nodes |-> 1],
       paths |-> [p \in Paths |-> IF p = 1 THEN path_init("A", <<>>, <<>>, 0)
                                           ELSE NoPath]] }

Configs == SingleConfigs \cup SharedConfigs \cup RateConfigs \cup ZeroConfigs

\* a thread that does not run has no locals
NoThread == [pc |-> "none", ready |-> 0, smps |-> <<>>, recv |-> 0, enqueue |-> 0,
             enqueued |-> 0]

\* path_write outside its loop over the destinations
PwIdle == [i |-> 1, phase |-> "get", smps |-> <<>>, tosend |-> 0]

NoSend == [resend |-> FALSE, dest |-> 0, sent |-> -1, prev |-> 0, cursor |-> 0,
           tail |-> 0, pulled |-> <<>>]

\* the state after the configuration was parsed; live: a run without end, of
\* which the ticks and the deliveries are not recorded
InitWith(configs, live) ==
    \E c \in configs :
        /\ node = [n \in Nodes |-> [vectorize |-> c.vectorize[n], received |-> 0,
                                    sent |-> 0, sequence |-> 0]]
        /\ path = c.paths
        /\ rt = [p \in Paths |-> NoThread]
        /\ st = [p \in Paths |-> [pc |-> "none", stop |-> <<>>]]
        /\ pw = [p \in Paths |-> PwIdle]
        /\ gh = [p \in Paths |->
                   [prepared |-> FALSE, live |-> live,
                    pushed |-> <<>>, pushedsmps |-> <<>>,
                    delivered |-> [i \in DOMAIN c.paths[p].destinations |-> <<>>],
                    skipseqs |-> {},
                    ticks |-> 0, expsum |-> 0, sends |-> 0,
                    batches |-> [i \in DOMAIN c.paths[p].destinations |-> 0],
                    lastrecv |-> 0, resend |-> FALSE, fresh |-> FALSE,
                    readneg |-> FALSE, writeneg |-> 0,
                    last |-> NoSend]]

\* the parts of the program beside the path engine are not at work
Elsewhere(c, d, m, n, o, f) ==
    /\ codec = c /\ daemon = d /\ mqtt = m /\ ngsi = n /\ opal = o /\ cfg = f
    /\ lists = Off /\ mapping = Off

Init == InitWith(Configs, FALSE) /\ Elsewhere(Off, Off, Off, Off, Off, Off)

\* ---------------------------------------------------------------- cursors
Received(p) == node[path[p].in].received

\* the cursors of the readers of p's queue: its hooks' heads, its destinations' sent
HookHeads(p) == [i \in DOMAIN path[p].hooks |-> path[p].hooks[i].head]
DestSent(p)  == [i \in DOMAIN path[p].destinations |-> node[path[p].destinations[i]].sent]
Readers(p)   == HookHeads(p) \o DestSent(p)
MinReader(p) == IF Readers(p) = <<>> THEN Received(p) ELSE SeqMin(Readers(p))

\* s without its element at index i
Without(s, i) == SubSeq(s, 1, i - 1) \o SubSeq(s, i + 1, Len(s))

\* the samples all source nodes delivered so far
RECURSIVE Delivered(_)
Delivered(ns) ==
    IF ns = {} THEN 0
    ELSE LET n == CHOOSE n \in ns : TRUE IN node[n].sequence + Delivered(ns \ {n})

\* ---------------------------------------------------------------- error
\* error(): fatal; the path is torn down and its threads end
error(p) ==
    /\ path' = [path EXCEPT ![p].state = PATH_STOPPED]
    /\ rt' = [rt EXCEPT ![p] = NoThread]
    /\ st' = [st EXCEPT ![p].pc = "none"]
    /\ pw' = [pw EXCEPT ![p] = PwIdle]

\* ---------------------------------------------------------------- life cycle
path_prepare(p) ==
    /\ UNCHANGED elsewhere
    /\ path[p].state = PATH_CREATED
    /\ ~gh[p].prepared
    /\ \E ok \in BOOLEAN :
        IF ~ok
        THEN /\ error(p)
             /\ UNCHANGED <<node, gh>>
        ELSE /\ path' = [path EXCEPT
                    ![p].pool = pool_init_mmap(queuelen),
                    ![p].queue = queue_init(queuelen),
                    ![p].readers = Len(path[p].hooks) + Len(path[p].destinations)]
             /\ gh' = [gh EXCEPT ![p].prepared = TRUE]
             /\ UNCHANGED <<node, rt, st, pw>>

path_start(p) ==
    /\ UNCHANGED elsewhere
    /\ path[p].state = PATH_CREATED
    /\ gh[p].prepared
    /\ \E ret \in {0, 1} :
        IF ret # 0
        THEN UNCHANGED vars
        ELSE /\ st' = [st EXCEPT ![p].pc = IF path[p].rate # 0 THEN "wait" ELSE "none"]
             /\ path' = [path EXCEPT ![p].state = PATH_RUNNING]
             /\ rt' = [rt EXCEPT ![p] = [pc |-> "get", ready |-> 0,
                            smps |-> [i \in 1..node[path[p].in].vectorize |-> 0],
                            recv |-> 0, enqueue |-> 0, enqueued |-> 0]]
             /\ UNCHANGED <<node, pw, gh>>

\* a path_stop that runs the hooks' stop before it cancels the threads
path_stop_hooks_first(rate) ==
    IF rate # 0 THEN <<"hooks", "recv", "send", "close">> ELSE <<"hooks", "recv">>

\* the steps of path_stop in their order: cancel and join the receive thread,
\* at a rate above 0 cancel and join the send thread and close the timer, then
\* set the state and run the hooks' stop
path_stop_steps(rate) ==
    IF rate # 0 THEN <<"recv", "send", "close", "hooks">> ELSE <<"recv", "hooks">>

\* path_stop, its next step; a thread is cancelled wherever it is
path_stop(p) ==
    LET steps == path_stop_steps(path[p].rate)
        done  == st[p].stop
        step  == steps[Len(done) + 1]
    IN /\ IF done = <<>> THEN path[p].state = PATH_RUNNING ELSE Len(done) < Len(steps)
       /\ rt' = IF step = "recv" THEN [rt EXCEPT ![p] = NoThread] ELSE rt
       /\ st' = [st EXCEPT ![p].stop = Append(@, step),
                           ![p].pc = IF step = "send" THEN "none" ELSE @]
       /\ pw' = IF step = "send" THEN [pw EXCEPT ![p] = PwIdle]
                ELSE IF step = "recv" /\ rt[p].pc = "write" THEN [pw EXCEPT ![p] = PwIdle]
                ELSE pw
       /\ path' = IF step = "hooks" THEN [path EXCEPT ![p].state = PATH_STOPPED] ELSE path
       /\ UNCHANGED <<node, gh>>
       /\ UNCHANGED elsewhere

\* ---------------------------------------------------------------- path_write
\* the sequence numbers the samples smps[1..n] of path p carry
SeqsOf(p, smps, n) == [i \in 1..n |-> path[p].samples[smps[i]]]

\* where path_run goes on after path_write returned: the next iteration
path_run_loop == "get"

\* a send thread that sends again without waiting for the next tick
path_run_async_burst == "async"

\* where path_run_async goes on after path_write returned: the next timerfd_wait
path_run_async_loop == "wait"

\* list_foreach over the destinations: the next one, or the return to the
\* thread that called path_write
path_write_continue(p, thread) ==
    LET done == pw[p].i >= Len(path[p].destinations)
    IN /\ pw' = [pw EXCEPT ![p] = IF done THEN PwIdle
                                  ELSE [PwIdle EXCEPT !.i = pw[p].i + 1]]
       /\ IF thread = "recv"
          THEN /\ rt' = [rt EXCEPT ![p].pc = IF done THEN path_run_loop ELSE "write"]
               /\ UNCHANGED st
          ELSE /\ st' = [st EXCEPT ![p].pc = IF done THEN path_run_async_loop ELSE "write"]
               /\ UNCHANGED rt

\* the first sample of the chunk to send
path_write_base(resend, received, cnt, sent) ==
    IF resend THEN received - cnt ELSE sent

\* the number of samples path_write pulls from the queue after the write
path_write_pull(cnt, available, tosend, sent) == sent

\* a path_write that pulls after every write, a resend too
path_write_release_always(resend) == TRUE

\* whether path_write pulls from the queue and releases after the write
path_write_release(resend) == ~resend

\* path_write, one destination, up to the call of node_write
path_write_get(p, resend, thread) ==
    LET n    == path[p].destinations[pw[p].i]
        cnt  == node[n].vectorize
        base == path_write_base(resend, Received(p), cnt, node[n].sent)
        g    == queue_get_many(path[p].queue, cnt, base, Received(p), MinReader(p))
    IN IF g.cnt = 0
       THEN /\ path_write_continue(p, thread)
            /\ UNCHANGED <<node, path, gh>>
       ELSE \E keep \in hook_verdicts(p, g.cnt, HOOK_WRITE) :
              IF keep = {}
              THEN /\ path_write_continue(p, thread)
                   /\ UNCHANGED <<node, path, gh>>
              ELSE /\ pw' = [pw EXCEPT ![p].phase = "send",
                                       ![p].smps = hook_run(g.smps, g.cnt, keep),
                                       ![p].tosend = Cardinality(keep)]
                   /\ UNCHANGED <<node, path, rt, st, gh>>

\* the returns of node_write for tosend samples: an error, or the number
\* accepted; in a run without end the destination accepts everything
node_write(tosend, live) == IF live THEN {tosend} ELSE -1..tosend

\* the returns of timerfd_wait; in a run without end the timer is never late
timerfd_wait(live) == IF live THEN 0..1 ELSE 0..MaxExpir

\* path_write, one destination, from node_write on
path_write_send(p, resend, thread) ==
    LET i    == pw[p].i
        n    == path[p].destinations[i]
        cnt  == node[n].vectorize
    IN \E sent \in node_write(pw[p].tosend, gh[p].live) :
         IF sent < 0
         THEN /\ error(p)
              /\ gh' = [gh EXCEPT ![p].writeneg = i]
              /\ UNCHANGED node
         ELSE LET seqs == SeqsOf(p, pw[p].smps, sent)
                  r == queue_pull_many(path[p].queue,
                          path_write_pull(cnt, Len(pw[p].smps), pw[p].tosend, sent),
                          node[n].sent, Received(p), HookHeads(p) \o Without(DestSent(p), i))
                  obs == [resend |-> resend, dest |-> i, sent |-> sent,
                          prev |-> node[n].sent, tail |-> Received(p),
                          cursor |-> IF path_write_release(resend) THEN r.head
                                     ELSE node[n].sent,
                          pulled |-> IF path_write_release(resend) THEN r.smps ELSE <<>>]
              IN /\ gh' = [gh EXCEPT ![p].delivered[i] = IF gh[p].live THEN @ ELSE @ \o seqs,
                                      ![p].last = obs,
                                      ![p].batches[i] =
                                          IF thread = "send" THEN @ + 1 ELSE @]
                 /\ IF ~path_write_release(resend)
                    THEN UNCHANGED <<node, path>>
                    ELSE /\ node' = [node EXCEPT ![n].sent = r.head]
                         /\ path' = [path EXCEPT ![p].queue = r.queue, ![p].pool =
                                        pool_put_many(@, r.smps, r.released)]
                 /\ path_write_continue(p, thread)

path_write(p, resend, thread) ==
    IF path[p].destinations = <<>>
    THEN /\ path_write_continue(p, thread)
         /\ UNCHANGED <<node, path, gh>>
    ELSE IF pw[p].phase = "get"
         THEN path_write_get(p, resend, thread)
         ELSE path_write_send(p, resend, thread)

\* ---------------------------------------------------------------- path_run
\* the samples ready for node_read after sample_get_many returned got of them
path_run_ready(ready, got) == ready + got

\* the samples still ready after the push of enqueued of them
path_run_unpushed(ready, enqueued) == ready - enqueued

\* skipped after the read hooks left enqueue of recv samples
path_run_skipped(skipped, recv, enqueue) ==
    IF enqueue # recv THEN skipped + (recv - enqueue) ELSE skipped

\* skipped after the queue took enqueued of enqueue samples: a warning only
path_run_overflow(skipped, enqueue, enqueued) == skipped

\* the number of samples a hook pulls: what is older than its history
path_run_pull(received, head, history) == received - head - history

\* a receive thread that takes no return of the read for a failure
path_run_failed_never(recv) == FALSE

\* whether the return of the source node's read is a failure
path_run_failed(recv) == recv < 0

\* the outcomes of reading out->sent for the first destination out: none when
\* there is one; without destinations out is NULL and the read is undefined,
\* it faults or it yields some value
path_run_first(dests) == IF dests = <<>> THEN {"fault", "value"} ELSE {"ok"}

\* a memory fault ends the process: every thread of every path
fault ==
    /\ path' = [q \in Paths |->
                  IF path[q].state = PATH_RUNNING
                  THEN [path[q] EXCEPT !.state = PATH_STOPPED] ELSE path[q]]
    /\ rt' = [q \in Paths |-> NoThread]
    /\ st' = [q \in Paths |-> [st[q] EXCEPT !.pc = "none"]]
    /\ pw' = [q \in Paths |-> PwIdle]

\* the status line, then fill smps[] with free samples from the pool
recv_get(p) ==
    /\ UNCHANGED elsewhere
    /\ rt[p].pc = "get"
    /\ \E out \in path_run_first(path[p].destinations) :
        IF out = "fault"
        THEN fault
        ELSE LET cnt == node[path[p].in].vectorize
                 r   == sample_get_many(path[p].pool, cnt - rt[p].ready)
             IN /\ path' = [path EXCEPT ![p].pool = r.pool]
                /\ rt' = [rt EXCEPT
                      ![p].smps = [i \in 1..cnt |-> IF i <= r.cnt THEN r.smps[i] ELSE @[i]],
                      ![p].ready = path_run_ready(@, r.cnt),
                      ![p].pc = "read"]
                /\ UNCHANGED <<st, pw>>
    /\ UNCHANGED <<node, gh>>

\* the source node's read fills the first recv of the ready samples
recv_read(p) ==
    /\ UNCHANGED elsewhere
    /\ rt[p].pc = "read"
    /\ LET in == path[p].in
           smps == rt[p].smps
       IN \E recv \in -1..Min(rt[p].ready, MaxSeq - Delivered(Nodes)) :
            IF path_run_failed(recv)
            THEN /\ error(p)
                 /\ gh' = [gh EXCEPT ![p].readneg = TRUE]
                 /\ UNCHANGED node
            ELSE /\ node' = [node EXCEPT ![in].sequence = @ + recv]
                 /\ gh' = [gh EXCEPT ![p].readneg = recv < 0]
                 /\ path' = [path EXCEPT ![p].samples = [id \in DOMAIN @ |->
                        IF \E i \in 1..recv : smps[i] = id
                        THEN node[in].sequence
                             + CHOOSE i \in 1..recv :
                                 /\ smps[i] = id
                                 /\ \A j \in 1..recv : smps[j] = id => j <= i
                        ELSE @[id]]]
                 /\ rt' = [rt EXCEPT ![p].recv = recv, ![p].pc = "hook"]
                 /\ UNCHANGED <<st, pw>>

\* the read hooks
recv_hook(p) ==
    /\ UNCHANGED elsewhere
    /\ rt[p].pc = "hook"
    /\ \E keep \in hook_verdicts(p, rt[p].recv, HOOK_READ) :
        LET enqueue == Cardinality(keep)
        IN /\ rt' = [rt EXCEPT ![p].smps = hook_run(@, rt[p].recv, keep),
                               ![p].enqueue = enqueue,
                               ![p].pc = "push"]
           /\ path' = [path EXCEPT ![p].skipped =
                          path_run_skipped(@, rt[p].recv, enqueue)]
           /\ gh' = [gh EXCEPT ![p].skipseqs =
                        @ \cup {path[p].samples[rt[p].smps[i]] :
                                  i \in (1..rt[p].recv) \ keep}]
    /\ UNCHANGED <<node, st, pw>>

\* the push of the survivors
recv_push(p) ==
    /\ UNCHANGED elsewhere
    /\ rt[p].pc = "push"
    /\ LET in == path[p].in
           r  == queue_push_many(path[p].queue, rt[p].smps, rt[p].enqueue,
                                 node[in].received, MinReader(p))
       IN /\ node' = [node EXCEPT ![in].received = r.tail]
          /\ path' = [path EXCEPT ![p].queue = r.queue,
                         ![p].skipped = path_run_overflow(@, rt[p].enqueue, r.cnt)]
          /\ rt' = [rt EXCEPT ![p].ready = path_run_unpushed(@, r.cnt),
                              ![p].enqueued = r.cnt,
                              ![p].pc = "history"]
          /\ gh' = [gh EXCEPT ![p].pushed = @ \o SeqsOf(p, rt[p].smps, r.cnt),
                              ![p].pushedsmps = @ \o SubSeq(rt[p].smps, 1, r.cnt)]
    /\ UNCHANGED <<st, pw>>

\* list_foreach over the hooks from the i-th on: each pulls and releases what
\* left its history
RECURSIVE path_run_history(_, _, _, _, _, _)
path_run_history(hooks, pool, q, tail, dests, i) ==
    IF i > Len(hooks) THEN [hooks |-> hooks, pool |-> pool, queue |-> q]
    ELSE LET h    == hooks[i]
             pull == path_run_pull(tail, h.head, h.history)
             heads == [j \in DOMAIN hooks |-> hooks[j].head]
             r    == queue_pull_many(q, pull, h.head, tail, Without(heads, i) \o dests)
         IN IF pull > 0
            THEN path_run_history([hooks EXCEPT ![i].head = r.head],
                                  pool_put_many(pool, r.smps, r.released),
                                  r.queue, tail, dests, i + 1)
            ELSE path_run_history(hooks, pool, q, tail, dests, i + 1)

recv_history(p) ==
    /\ UNCHANGED elsewhere
    /\ rt[p].pc = "history"
    /\ LET r == path_run_history(path[p].hooks, path[p].pool, path[p].queue,
                                 Received(p), DestSent(p), 1)
       IN path' = [path EXCEPT ![p].hooks = r.hooks, ![p].pool = r.pool,
                               ![p].queue = r.queue]
    /\ rt' = [rt EXCEPT ![p].pc = IF path[p].rate = 0 THEN "write" ELSE path_run_loop]
    /\ UNCHANGED <<node, st, pw, gh>>

\* at rate 0 the receive thread sends
recv_write(p) ==
    /\ UNCHANGED elsewhere
    /\ rt[p].pc = "write"
    /\ path_write(p, FALSE, "recv")

\* ---------------------------------------------------------------- path_run_async
\* overrun after a timerfd_wait that reported expir expirations
path_run_async_overrun(overrun, expir) ==
    IF expir > 1 THEN overrun + expir ELSE overrun

\* the resend argument of the send thread's call of path_write
path_run_async_resend(received, lastrecv) == TRUE

\* timerfd_wait returns; nothing to send before the first sample
send_wait(p) ==
    /\ UNCHANGED elsewhere
    /\ st[p].pc = "wait"
    /\ IF gh[p].live THEN TRUE ELSE gh[p].ticks < MaxTicks
    /\ \E expir \in timerfd_wait(gh[p].live) :
        /\ path' = [path EXCEPT ![p].overrun = path_run_async_overrun(@, expir)]
        /\ st' = [st EXCEPT ![p].pc = IF Received(p) = 0 THEN path_run_async_loop
                                      ELSE "async"]
        /\ gh' = [gh EXCEPT ![p].ticks = IF gh[p].live THEN @ ELSE @ + 1,
                            ![p].expsum = @ + Max(expir - 1, 0),
                            ![p].sends = 0,
                            ![p].batches = [i \in DOMAIN @ |-> 0]]
    /\ UNCHANGED <<node, rt, pw>>

\* the periodic hooks, then the call of path_write
send_async(p) ==
    /\ UNCHANGED elsewhere
    /\ st[p].pc = "async"
    /\ \E keep \in hook_verdicts(p, 1, HOOK_ASYNC) :
        IF keep = {}
        THEN /\ st' = [st EXCEPT ![p].pc = path_run_async_loop]
             /\ UNCHANGED gh
        ELSE /\ st' = [st EXCEPT ![p].pc = "write"]
             /\ gh' = [gh EXCEPT
                   ![p].sends = @ + 1,
                   ![p].resend = path_run_async_resend(Received(p), gh[p].lastrecv),
                   ![p].fresh = Received(p) # gh[p].lastrecv,
                   ![p].lastrecv = Received(p)]
    /\ UNCHANGED <<node, path, rt, pw>>

send_write(p) ==
    /\ UNCHANGED elsewhere
    /\ st[p].pc = "write"
    /\ path_write(p, gh[p].resend, "send")

\* ---------------------------------------------------------------- specification
Next ==
    \E p \in Paths :
        \/ path_prepare(p)
        \/ path_start(p)
        \/ path_stop(p)
        \/ recv_get(p)
        \/ recv_read(p)
        \/ recv_hook(p)
        \/ recv_push(p)
        \/ recv_history(p)
        \/ recv_write(p)
        \/ send_wait(p)
        \/ send_async(p)
        \/ send_write(p)

Spec == Init /\ [][Next]_vars

\* the paths of the runs without end: A => B at rate 0 and at a rate above 0
LiveConfigs ==
    { [vectorize |-> [n \in Nodes |-> 1],
       paths |-> [p \in Paths |-> IF p = 1 THEN path_init("A", <<"B">>, <<>>, rate)
                                           ELSE NoPath]] : rate \in {0, 1} }

LiveInit == InitWith(LiveConfigs, TRUE) /\ Elsewhere(Off, Off, Off, Off, Off, Off)

\* the steps of the receive thread and of the send thread of path p
path_run(p) ==
    recv_get(p) \/ recv_read(p) \/ recv_hook(p) \/ recv_push(p) \/ recv_history(p)
        \/ recv_write(p)

path_run_async(p) == send_wait(p) \/ send_async(p) \/ send_write(p)

\* both threads of every path are scheduled again and again
LiveSpec ==
    /\ LiveInit
    /\ [][Next]_vars
    /\ \A p \in Paths : WF_vars(path_run(p)) /\ WF_vars(path_run_async(p))

\* ================================================================ claims
Running(p) == path[p].state = PATH_RUNNING

Occurs(s, x) == Cardinality({i \in DOMAIN s : s[i] = x})

\* the samples the receive thread holds: the ready ones of smps[], which follow
\* the enqueued ones once the push is done
Held(p) ==
    IF rt[p].pc \in {"read", "hook", "push"}
    THEN SubSeq(rt[p].smps, 1, rt[p].ready)
    ELSE SubSeq(rt[p].smps, rt[p].enqueued + 1, rt[p].enqueued + rt[p].ready)

InQueue(p) == [i \in 1..queuelen |-> path[p].queue[i - 1]]

IsPrefix(a, b) == Len(a) <= Len(b) /\ SubSeq(b, 1, Len(a)) = a

StrictlyIncreasing(s) == \A i, j \in DOMAIN s : i < j => s[i] < s[j]

\* C1: in every state of a running path each of the pool's samples is exactly
\* once in the free-list, in the receive thread's ready part of smps[] or in
\* the queue.
C1_PoolConservation ==
    \A p \in Paths : Running(p) =>
        \A x \in 1..queuelen :
            Occurs(path[p].pool, x) + Occurs(Held(p), x) + Occurs(InQueue(p), x) = 1

\* C2: for every running path the write cursor in.received is at most
\* queuelen ahead of the slowest reader cursor (the destinations' sent, the
\* hooks' head), and no reader cursor is ahead of the write cursor.
C2_QueueBound ==
    \A p \in Paths : Running(p) =>
        /\ Received(p) - MinReader(p) <= queuelen
        /\ \A i \in DOMAIN Readers(p) : Readers(p)[i] <= Received(p)

\* C3: what a destination's write accepted so far is the beginning of what
\* the receive thread pushed after HOOK_READ: same samples, same order, none
\* missing, none repeated.
C3_DestinationSequence ==
    \A p \in Paths : \A i \in DOMAIN gh[p].delivered :
        IsPrefix(gh[p].delivered[i], gh[p].pushed)

\* C4: the sequence numbers a destination's write accepted, over all calls in
\* order, are strictly increasing (the source's are).
C4_StrictlyIncreasing ==
    \A p \in Paths : \A i \in DOMAIN gh[p].delivered :
        StrictlyIncreasing(gh[p].delivered[i])

\* C5: after a send without resend whose write accepted sent samples, the
\* destination's cursor is its previous value plus sent and the samples pulled
\* are those pushed at the positions previous .. previous + sent - 1.
C5_PullAdvance ==
    \A p \in Paths :
        LET l == gh[p].last
        IN (l.dest # 0 /\ ~l.resend) =>
            /\ l.cursor = l.prev + l.sent
            /\ l.prev + l.sent <= Len(gh[p].pushedsmps)
            /\ l.pulled = SubSeq(gh[p].pushedsmps, l.prev + 1, l.prev + l.sent)

\* C6: a push that takes only enqueued of the enqueue samples adds
\* enqueue - enqueued to skipped.
C6_OverflowCounted ==
    [][\A p \in Paths :
          (rt[p].pc = "push" /\ rt'[p].pc = "history") =>
              path'[p].skipped = path[p].skipped + (rt[p].enqueue - rt'[p].enqueued)]_vars

\* C7: the read hooks leaving enqueue of recv samples add recv - enqueue to
\* skipped, only the survivors are pushed, and no sequence number a read hook
\* skipped is ever accepted by a destination.
C7_HookSkipAccounting ==
    /\ [][\A p \in Paths :
            /\ (rt[p].pc = "hook" /\ rt'[p].pc = "push") =>
                  path'[p].skipped = path[p].skipped + (rt[p].recv - rt'[p].enqueue)
            /\ (rt[p].pc = "push" /\ rt'[p].pc = "history") =>
                  /\ rt'[p].enqueued <= rt[p].enqueue
                  /\ gh'[p].pushedsmps =
                        gh[p].pushedsmps \o SubSeq(rt[p].smps, 1, rt'[p].enqueued)]_vars
    /\ [](\A p \in Paths : \A i \in DOMAIN gh[p].delivered :
            \A k \in DOMAIN gh[p].delivered[i] :
                gh[p].delivered[i][k] \notin gh[p].skipseqs)

\* C8: overrun is the sum over all ticks of expirations - 1.
C8_OverrunSum ==
    \A p \in Paths : path[p].overrun = gh[p].expsum

\* C9: after a return of timerfd_wait, whatever it reported, the send thread
\* runs the send routine at most once, one batch per destination, before it
\* waits again.
C9_NoCatchUp ==
    \A p \in Paths :
        /\ gh[p].sends <= 1
        /\ \A i \in DOMAIN gh[p].batches : gh[p].batches[i] <= 1

\* C9 happens: a first tick that reported more than one expiration, followed
\* by one batch to the destination
C9_Witness ==
    \E p \in Paths :
        /\ gh[p].ticks = 1
        /\ gh[p].expsum > 0
        /\ gh[p].sends = 1
        /\ Len(path[p].destinations) = 2
        /\ \A i \in DOMAIN gh[p].batches : gh[p].batches[i] = 1

\* C10: the send thread runs the send routine with resend exactly when
\* in.received is unchanged since its previous send.
C10_ResendOnlyWhenIdle ==
    \A p \in Paths :
        st[p].pc = "write" => (gh[p].resend <=> ~gh[p].fresh)

\* the last n elements of s, all of s when it is shorter
LastOf(s, n) == SubSeq(s, Max(1, Len(s) - n + 1), Len(s))

\* a step of the send routine of p's send thread
SendStep(p) ==
    /\ st[p].pc = "write"
    /\ st'[p].stop = st[p].stop
    /\ pw'[p] # pw[p] \/ st'[p].pc # st[p].pc

\* C11: a run of the send routine with resend changes no reader cursor and not
\* in.received, releases no sample to the pool and leaves the queue as it is;
\* what it hands to a destination's write is among the last V_out enqueued
\* samples.
C11_ResendFrame ==
    /\ [][\A p \in Paths :
            (SendStep(p) /\ gh[p].resend) =>
                /\ node' = node
                /\ path'[p].pool = path[p].pool
                /\ path'[p].queue = path[p].queue
                /\ path'[p].hooks = path[p].hooks]_vars
    /\ [][\A p \in Paths :
            (SendStep(p) /\ gh[p].resend /\ pw'[p].phase = "send") =>
                LET cnt  == node[path[p].destinations[pw[p].i]].vectorize
                    last == LastOf(gh[p].pushedsmps, cnt)
                    smps == SubSeq(pw'[p].smps, 1, pw'[p].tosend)
                IN /\ Range(smps) \subseteq Range(last)
                   /\ (path[p].hooks = <<>> /\ Len(gh[p].pushedsmps) >= cnt) =>
                          smps = last]_vars

\* C11 happens: a resend handed a sample to a destination
C11_Witness ==
    \E p \in Paths :
        /\ gh[p].last.resend
        /\ gh[p].last.sent > 0
        /\ gh[p].ticks = 2

\* C12: in a running path whose destination accepts every write, a receive
\* thread that found the pool exhausted is followed, under fair scheduling of
\* both threads, by a state in which samples are back in the pool (unless the
\* path is being stopped).
C12_PoolProgress ==
    \A p \in Paths :
        (Running(p) /\ rt[p].pc = "read" /\ rt[p].ready = 0 /\ path[p].pool = <<>>)
            ~> (~Running(p) \/ st[p].stop # <<>> \/ path[p].pool # <<>>)

C14_DestinationIsolation ==
    [][\A p \in Paths :
          /\ (pw'[p].i # pw[p].i) => (pw'[p].i = pw[p].i + 1 \/ pw'[p].i = 1)
          /\ (gh[p].writeneg = 0 /\ gh'[p].writeneg # 0
                /\ gh'[p].writeneg < Len(path[p].destinations)) =>
                 /\ path'[p].state = PATH_RUNNING
                 /\ pw'[p].i = gh'[p].writeneg + 1
                 /\ pw'[p].phase = "get"]_vars

\* C15: a path without destination is rejected by path_prepare: it never
\* counts as prepared, never runs and never has a receive thread.
C15_NoDestinationRejected ==
    \A p \in Paths :
        path[p].destinations = <<>> =>
            /\ ~gh[p].prepared
            /\ path[p].state # PATH_RUNNING
            /\ rt[p].pc = "none"

\* the state the specification names between created and running; path.c
\* never assigns it
PATH_PREPARED == "PATH_PREPARED"

\* C16: a path's state moves only along created, prepared, running, stopped:
\* once path_prepare has succeeded the path is prepared or further, and every
\* change of the state is one step of the chain (or the tear-down to stopped
\* after a fatal error).
C16_LifeCycle ==
    /\ [](\A p \in Paths :
            gh[p].prepared =>
                path[p].state \in {PATH_PREPARED, PATH_RUNNING, PATH_STOPPED})
    /\ [][\A p \in Paths :
            path'[p].state # path[p].state =>
                \/ path[p].state = PATH_CREATED /\ path'[p].state = PATH_PREPARED
                \/ path[p].state = PATH_PREPARED /\ path'[p].state = PATH_RUNNING
                \/ path'[p].state = PATH_STOPPED]_vars

\* the index of x in the sequence s
IndexOf(s, x) == CHOOSE i \in DOMAIN s : s[i] = x

StopOrder == <<"recv", "send", "close", "hooks">>

\* C17: path_stop cancels and joins the receive thread, then the send thread,
\* then closes the timer, then runs the hooks' stop; from the hooks' stop on,
\* and so after path_stop has returned, the path has no thread that could read,
\* push, pull or write.
C17_StopOrdering ==
    \A p \in Paths :
        LET done == st[p].stop
        IN /\ \A i, j \in DOMAIN done :
                i < j => IndexOf(StopOrder, done[i]) < IndexOf(StopOrder, done[j])
           /\ "recv" \in Range(done) => rt[p].pc = "none"
           /\ "send" \in Range(done) => st[p].pc = "none"
           /\ "hooks" \in Range(done) =>
                /\ rt[p].pc = "none"
                /\ st[p].pc = "none"
                /\ path[p].state = PATH_STOPPED
                /\ path[p].rate # 0 => "close" \in Range(done)

\* C17 happens: path_stop has returned for a path at a rate above 0 whose
\* threads had both been at work
C17_Witness ==
    \E p \in Paths :
        /\ st[p].stop = StopOrder
        /\ gh[p].pushed # <<>>
        /\ gh[p].last.sent > 0

\* C18: when the receive thread has been cancelled and joined by path_stop,
\* wherever it was, no sample is missing: each of the pool's samples is in the
\* free-list or in the queue.
C18_CancelKeepsPool ==
    \A p \in Paths :
        "recv" \in Range(st[p].stop) =>
            \A x \in 1..queuelen :
                Occurs(path[p].pool, x) + Occurs(InQueue(p), x) >= 1

\* C19: none of the samples smps[0 .. ready - 1] the receive thread passes to
\* the source node's read is referenced by the queue.
C19_ReadOnlyUnqueued ==
    \A p \in Paths :
        rt[p].pc = "read" =>
            \A i \in 1..rt[p].ready : Occurs(InQueue(p), rt[p].smps[i]) = 0

\* C20: after the history step of an iteration of the receive loop the cursor
\* of every hook trails the write cursor by at most the hook's history, and
\* none of the history most recently enqueued samples is in the pool.
C20_HistoryWindow ==
    [][\A p \in Paths :
          (rt[p].pc = "history" /\ rt'[p].pc \notin {"history", "none"}) =>
              \A i \in DOMAIN path'[p].hooks :
                  LET h == path'[p].hooks[i]
                      recent == LastOf(gh'[p].pushedsmps, h.history)
                  IN /\ node'[path[p].in].received - h.head <= h.history
                     /\ \A k \in DOMAIN recent : Occurs(path'[p].pool, recent[k]) = 0]_vars

\* ================================================================ c37_118 codec
\* enum class Status
Ok == 0
MissingBytes == 1
MissingConfig == 2
InvalidValue == 3
InvalidChecksum == 4
InvalidSlice == 5
Other == 6

is_ok(result) == result >= 0
ok(t) == t
\* parser::error
parser_error(s) == -s
status(s) == IF s >= -Ok THEN Ok ELSE IF s <= -Other THEN Other ELSE -s

\* ^, & and | of two 16-bit unsigned integers, bit after bit
Bit(a, k) == (a \div k) % 2

BitXor(a, b) ==
      1 * ((Bit(a, 1) + Bit(b, 1)) % 2) + 2 * ((Bit(a, 2) + Bit(b, 2)) % 2)
    + 4 * ((Bit(a, 4) + Bit(b, 4)) % 2) + 8 * ((Bit(a, 8) + Bit(b, 8)) % 2)
    + 16 * ((Bit(a, 16) + Bit(b, 16)) % 2) + 32 * ((Bit(a, 32) + Bit(b, 32)) % 2)
    + 64 * ((Bit(a, 64) + Bit(b, 64)) % 2) + 128 * ((Bit(a, 128) + Bit(b, 128)) % 2)
    + 256 * ((Bit(a, 256) + Bit(b, 256)) % 2) + 512 * ((Bit(a, 512) + Bit(b, 512)) % 2)
    + 1024 * ((Bit(a, 1024) + Bit(b, 1024)) % 2) + 2048 * ((Bit(a, 2048) + Bit(b, 2048)) % 2)
    + 4096 * ((Bit(a, 4096) + Bit(b, 4096)) % 2) + 8192 * ((Bit(a, 8192) + Bit(b, 8192)) % 2)
    + 16384 * ((Bit(a, 16384) + Bit(b, 16384)) % 2) + 32768 * ((Bit(a, 32768) + Bit(b, 32768)) % 2)

BitAnd(a, b) ==
      1 * (Bit(a, 1) * Bit(b, 1)) + 2 * (Bit(a, 2) * Bit(b, 2))
    + 4 * (Bit(a, 4) * Bit(b, 4)) + 8 * (Bit(a, 8) * Bit(b, 8))
    + 16 * (Bit(a, 16) * Bit(b, 16)) + 32 * (Bit(a, 32) * Bit(b, 32))
    + 64 * (Bit(a, 64) * Bit(b, 64)) + 128 * (Bit(a, 128) * Bit(b, 128))
    + 256 * (Bit(a, 256) * Bit(b, 256)) + 512 * (Bit(a, 512) * Bit(b, 512))
    + 1024 * (Bit(a, 1024) * Bit(b, 1024)) + 2048 * (Bit(a, 2048) * Bit(b, 2048))
    + 4096 * (Bit(a, 4096) * Bit(b, 4096)) + 8192 * (Bit(a, 8192) * Bit(b, 8192))
    + 16384 * (Bit(a, 16384) * Bit(b, 16384)) + 32768 * (Bit(a, 32768) * Bit(b, 32768))

BitOr(a, b) == a + b - BitAnd(a, b)

\* the value of F at the value of e, which is worked out once
Let(e, F(_)) == CHOOSE r \in {F(x) : x \in {e}} : TRUE

\* crc ^= quick; quick <<= 5; crc ^= quick; quick <<= 7; crc ^= quick
\* after crc <<= 8, all of them uint16_t
calculate_crc_quick(crc, quick) ==
    LET crc1   == (crc * 256) % 65536
        quick2 == (quick * 32) % 65536
        quick3 == (quick2 * 128) % 65536
    IN Let(BitXor(crc1, quick), LAMBDA crc2 :
       Let(BitXor(crc2, quick2), LAMBDA crc3 : BitXor(crc3, quick3)))

\* the body of the loop of calculate_crc for the byte frame[i]
calculate_crc_step(crc, byte) ==
    Let(BitXor(crc \div 256, byte), LAMBDA temp :
    Let(BitXor(temp, temp \div 16), LAMBDA quick : calculate_crc_quick(crc, quick)))

\* the loop of calculate_crc over the bytes buf[from + i .. from + size - 1]:
\* those of the first half, then, with the crc they leave, those of the second
RECURSIVE calculate_crc_loop(_, _, _, _, _)
calculate_crc_loop(buf, from, i, size, crc) ==
    IF i >= size THEN crc
    ELSE IF i + 1 = size THEN calculate_crc_step(crc, buf[from + i + 1])
    ELSE Let((i + size) \div 2, LAMBDA mid :
         Let(calculate_crc_loop(buf, from, i, mid, crc), LAMBDA next :
             calculate_crc_loop(buf, from, mid, size, next)))

\* calculate_crc(frame, size), frame pointing at offset from of buf
calculate_crc(buf, from, size) == calculate_crc_loop(buf, from, 0, size, 65535)

\* htons, htonl and back: the bytes of an integer in network order
htons(i) == <<(i \div 256) % 256, i % 256>>
ntohs(b) == b[1] * 256 + b[2]
htonl(i) == <<(i \div 16777216) % 256, (i \div 65536) % 256, (i \div 256) % 256, i % 256>>
ntohl(b) == ((b[1] * 256 + b[2]) * 256 + b[3]) * 256 + b[4]

\* (uint16_t *) of an int16_t, and (int16_t *) of a uint16_t
unsigned16(i) == i % 65536
signed16(u) == IF u >= 32768 THEN u - 65536 ELSE u

\* class Parser: start, cursor and end are offsets into the buffer
Parser(from, length) == [start |-> from, cursor |-> from, end |-> from + length]

\* Parser::require: r is the old cursor, or the error
require(p, length) ==
    IF p.end - p.cursor < length
    THEN [r |-> parser_error(MissingBytes), p |-> p]
    ELSE [r |-> ok(p.cursor), p |-> [p EXCEPT !.cursor = @ + length]]

\* Parser::slice: the offset cursor + from, or the error
slice(p, from, length) ==
    IF p.cursor + from < p.start THEN parser_error(InvalidSlice)
    ELSE IF p.cursor + from + length > p.end THEN parser_error(MissingBytes)
    ELSE ok(p.cursor + from)

\* std::memcpy of the bytes b to offset at of buf; buf holds the bytes of the
\* buffer that were written so far
memcpy(buf, at, b) ==
    SubSeq(buf, 1, at) \o b \o SubSeq(buf, at + Len(b) + 1, Len(buf))

\* ---------------------------------------------------------------- serialize
\* what one serialize call hands to copy_from: the bytes b, of which n are
\* counted in the Result it returns; or the Status e it fails with
Item(b) == [b |-> b, n |-> Len(b), e |-> Ok]
Fail(e) == [b |-> <<>>, n |-> 0, e |-> e]

\* Parser::serialize(std::vector<T>) and (std::array<T, N>): every element is
\* serialized, the Result is ok(), which is 0
serialize_vector(items) ==
    Let(items, LAMBDA its : [i \in DOMAIN its |-> [its[i] EXCEPT !.n = 0]])

\* the concatenation of the sequences of a sequence, from the i-th on
RECURSIVE FlattenFrom(_, _)
FlattenFrom(ss, i) == IF i > Len(ss) THEN <<>> ELSE ss[i] \o FlattenFrom(ss, i + 1)

Flatten(ss) == Let(ss, LAMBDA its : FlattenFrom(its, 1))

\* Parser::copy_from of one item; s: the buffer, the parser and the Result so
\* far, which is the sum of the Results (the variadic serialize) or the error
\* that ended it
copy_from_item(s, it) ==
    LET q == require(s.p, Len(it.b))
    IN IF ~is_ok(s.r) THEN s
       ELSE IF it.e # Ok THEN [s EXCEPT !.r = parser_error(it.e)]
       ELSE IF ~is_ok(q.r) THEN [s EXCEPT !.r = q.r]
       ELSE [buf |-> memcpy(s.buf, q.r, it.b), p |-> q.p, r |-> s.r + it.n]

\* the items lo..hi one after the other: the first half, then the second
RECURSIVE copy_from_items(_, _, _, _)
copy_from_items(items, lo, hi, s) ==
    IF lo > hi THEN s
    ELSE IF lo = hi THEN copy_from_item(s, items[lo])
    ELSE Let((lo + hi) \div 2, LAMBDA mid :
         Let(copy_from_items(items, lo, mid, s), LAMBDA t :
             copy_from_items(items, mid + 1, hi, t)))

\* Parser::copy_from, item after item up to the first that fails
copy_from(buf, p, items, sum) ==
    Let(items, LAMBDA its :
    Let([buf |-> buf, p |-> p, r |-> ok(sum)], LAMBDA s :
        copy_from_items(its, 1, Len(its), s)))

serialize_uint16(i) == <<Item(htons(i))>>
serialize_uint32(i) == <<Item(htonl(i))>>
serialize_int16(i) == serialize_uint16(unsigned16(i))
\* a float is the 32 bits of its representation
serialize_float(f) == serialize_uint32(f)

\* the fields of Rectangular<T> and of Polar<T>: int16_t real, imaginary and
\* phase, uint16_t magnitude, float for the indices 2 and 3
serialize_Phasor(ph, format) ==
    IF BitAnd(format, 3) # ph.index THEN <<Fail(InvalidValue)>>
    ELSE CASE ph.index = 0 -> serialize_int16(ph.a) \o serialize_int16(ph.b)
           [] ph.index = 1 -> serialize_uint16(ph.a) \o serialize_int16(ph.b)
           [] OTHER        -> serialize_float(ph.a) \o serialize_float(ph.b)

serialize_Analog(a, format) ==
    IF BitAnd(format, 4) # a.index * 4 THEN <<Fail(InvalidValue)>>
    ELSE IF a.index = 0 THEN serialize_int16(a.v) ELSE serialize_float(a.v)

serialize_Freq(f, format) ==
    IF BitAnd(format, 8) # f.index * 8 THEN <<Fail(InvalidValue)>>
    ELSE IF f.index = 0 THEN serialize_int16(f.v) ELSE serialize_float(f.v)

\* pc: the PmuConfig1 of the context at pmu_index
serialize_PmuData(d, pc) ==
    IF \/ Len(d.phasor) # Len(pc.phinfo)
       \/ Len(d.analog) # Len(pc.aninfo)
       \/ Len(d.digital) # Len(pc.dginfo)
    THEN <<Fail(InvalidValue)>>
    ELSE serialize_uint16(d.stat)
         \o serialize_vector(Flatten([i \in DOMAIN d.phasor |->
                                        serialize_Phasor(d.phasor[i], pc.format)]))
         \o serialize_Freq(d.freq, pc.format)
         \o serialize_Freq(d.dfreq, pc.format)
         \o serialize_vector(Flatten([i \in DOMAIN d.analog |->
                                        serialize_Analog(d.analog[i], pc.format)]))
         \o serialize_vector(Flatten([i \in DOMAIN d.digital |->
                                        serialize_uint16(d.digital[i])]))

\* std::optional<Context>: no config bound
nullopt == [has_value |-> FALSE]

\* context->reset(), then next_pmu() after every PmuData: pmu_index = i - 1
serialize_Data(d, context) ==
    IF context = nullopt THEN <<Fail(MissingConfig)>>
    ELSE IF Len(d.pmus) # Len(context.pmus) THEN <<Fail(InvalidValue)>>
    ELSE serialize_vector(Flatten([i \in DOMAIN d.pmus |->
                                     serialize_PmuData(d.pmus[i], context.pmus[i])]))

serialize_Header(h) == <<Item(h.data)>>

\* the first 16 bytes of the name, filled up with zero bytes
serialize_Name1(n) ==
    <<Item([i \in 1..16 |-> IF i <= Len(n) THEN n[i] ELSE 0])>>

serialize_PmuConfig1(pc) ==
    serialize_Name1(pc.stn)
    \o serialize_uint16(pc.idcode)
    \o serialize_uint16(pc.format)
    \o serialize_uint16(Len(pc.phinfo) % 65536)
    \o serialize_uint16(Len(pc.aninfo) % 65536)
    \o serialize_uint16(Len(pc.dginfo) % 65536)
    \o serialize_vector(Flatten([i \in DOMAIN pc.phinfo |-> serialize_Name1(pc.phinfo[i].nam)]))
    \o serialize_vector(Flatten([i \in DOMAIN pc.aninfo |-> serialize_Name1(pc.aninfo[i].nam)]))
    \o serialize_vector(Flatten([i \in DOMAIN pc.dginfo |->
          serialize_vector(Flatten([j \in 1..16 |-> serialize_Name1(pc.dginfo[i].nam[j])]))]))
    \o serialize_vector(Flatten([i \in DOMAIN pc.phinfo |-> serialize_uint32(pc.phinfo[i].unit)]))
    \o serialize_vector(Flatten([i \in DOMAIN pc.aninfo |-> serialize_uint32(pc.aninfo[i].unit)]))
    \o serialize_vector(Flatten([i \in DOMAIN pc.dginfo |-> serialize_uint32(pc.dginfo[i].unit)]))
    \o serialize_uint16(pc.fnom)
    \o serialize_uint16(pc.cfgcnt)

serialize_Config1(c) ==
    serialize_uint32(c.time_base)
    \o serialize_uint16(Len(c.pmus) % 65536)
    \o serialize_vector(Flatten([i \in DOMAIN c.pmus |-> serialize_PmuConfig1(c.pmus[i])]))
    \o serialize_uint16(c.data_rate)

serialize_Config2(c) == serialize_Config1(c)

serialize_Config3(c) == <<>>

\* the Result of serialize(&c->cmd) is checked and dropped, that of copy_from
\* for c->ext is returned
serialize_Command(c) == serialize_vector(serialize_uint16(c.cmd)) \o <<Item(c.ext)>>

\* std::visit over the Message, a variant with the alternatives
\* Data, Header, Config1, Config2, Command, Config3 at the indices 0..5
serialize_Message(m, context) ==
    CASE m.index = 0 -> serialize_Data(m, context)
      [] m.index = 1 -> serialize_Header(m)
      [] m.index = 2 -> serialize_Config1(m)
      [] m.index = 3 -> serialize_Config2(m)
      [] m.index = 4 -> serialize_Command(m)
      [] OTHER       -> serialize_Config3(m)

\* the switch over f->message.index() of serialize(Frame)
serialize_type(index) ==
    CASE index = 0 -> 0
      [] index = 1 -> 16
      [] index = 2 -> 32
      [] index = 3 -> 48
      [] index = 4 -> 80
      [] OTHER     -> 64

\* Parser::serialize(Placeholder<T>): the default value is written and a
\* subparser over its bytes is saved
serialize_Placeholder(buf, p) ==
    Let(copy_from(buf, p, serialize_uint16(0), 0), LAMBDA w :
        [buf |-> w.buf, p |-> w.p, r |-> w.r,
         saved_parser |-> IF is_ok(w.r) THEN Parser(p.cursor, w.r) ELSE nullopt])

\* Placeholder<T>::replace
replace(buf, saved_parser, t) == copy_from(buf, saved_parser, serialize_uint16(t), 0).buf

\* the range of the buffer the CRC of serialize(Frame) is calculated over:
\* slice(-size, size)
serialize_crc(buf, p, size) == calculate_crc(buf, slice(p, -size, size), size % 65536)

\* what Parser::serialize returns: the buffer, the parser and the Result
serialize_return(s, r) == [buf |-> s.buf, p |-> s.p, r |-> r]

\* Parser::serialize(Frame) into a buffer of length bytes
serialize_Frame(f, context, length) ==
    Let(BitOr(BitOr(43520, serialize_type(f.message.index)), f.version), LAMBDA sync :
    Let(copy_from(<<>>, Parser(0, length), serialize_uint16(sync), 0), LAMBDA s1 :
    IF ~is_ok(s1.r) THEN serialize_return(s1, s1.r) ELSE
    Let(serialize_Placeholder(s1.buf, s1.p), LAMBDA framesize :
    IF ~is_ok(framesize.r) THEN serialize_return(framesize, framesize.r) ELSE
    Let(copy_from(framesize.buf, framesize.p,
                  serialize_uint16(f.idcode) \o serialize_uint32(f.soc)
                      \o serialize_uint32(f.fracsec), 0), LAMBDA s3 :
    IF ~is_ok(s3.r) THEN serialize_return(s3, s3.r) ELSE
    Let(copy_from(s3.buf, s3.p, serialize_Message(f.message, context), 0), LAMBDA msg :
    IF ~is_ok(msg.r) THEN serialize_return(msg, msg.r) ELSE
    Let(s1.r + framesize.r + s3.r + msg.r, LAMBDA size :
    Let(replace(msg.buf, framesize.saved_parser, (size + 2) % 65536), LAMBDA patched :
    Let(serialize_crc(patched, msg.p, size), LAMBDA crc :
    Let(copy_from(patched, msg.p, serialize_uint16(crc), 0), LAMBDA s4 :
    IF ~is_ok(s4.r) THEN serialize_return(s4, s4.r)
    ELSE serialize_return(s4, ok(0)))))))))))

\* ---------------------------------------------------------------- deserialize
\* Parser::copy_to: the Result, the parser and the bytes copied
copy_to(buf, p, length) ==
    LET q == require(p, length)
    IN IF ~is_ok(q.r) THEN [r |-> q.r, p |-> p, v |-> <<>>]
       ELSE [r |-> length, p |-> q.p, v |-> SubSeq(buf, q.r + 1, q.r + length)]

\* Parser::deserialize of a uint16_t, an int16_t, a uint32_t, a float (its 32
\* bits) and a Name1 (resized to 16 bytes)
deserialize_field(buf, p, kind) ==
    LET c == copy_to(buf, p, CASE kind \in {"uint16", "int16"} -> 2
                               [] kind \in {"uint32", "float"} -> 4
                               [] OTHER -> 16)
    IN IF ~is_ok(c.r) THEN c
       ELSE [c EXCEPT !.v = CASE kind = "uint16" -> ntohs(c.v)
                              [] kind = "int16" -> signed16(ntohs(c.v))
                              [] kind \in {"uint32", "float"} -> ntohl(c.v)
                              [] OTHER -> c.v]

\* one field of the variadic Parser::deserialize and of the one of std::vector
\* and std::array; s: the Result so far (the sum, or the error that ended it),
\* the parser and the values
deserialize_fields_one(buf, s, kind) ==
    LET d == deserialize_field(buf, s.p, kind)
    IN IF ~is_ok(s.r) THEN s
       ELSE IF ~is_ok(d.r) THEN [s EXCEPT !.r = d.r]
       ELSE [r |-> s.r + d.r, p |-> d.p, v |-> Append(s.v, d.v)]

\* the fields lo..hi one after the other: the first half, then the second
RECURSIVE deserialize_fields_range(_, _, _, _, _)
deserialize_fields_range(buf, kinds, lo, hi, s) ==
    IF lo > hi THEN s
    ELSE IF lo = hi THEN deserialize_fields_one(buf, s, kinds[lo])
    ELSE Let((lo + hi) \div 2, LAMBDA mid :
         Let(deserialize_fields_range(buf, kinds, lo, mid, s), LAMBDA t :
             deserialize_fields_range(buf, kinds, mid + 1, hi, t)))

\* field after field up to the first that fails
deserialize_fields(buf, p, kinds, vs, sum) ==
    Let(kinds, LAMBDA ks :
    Let([r |-> ok(sum), p |-> p, v |-> vs], LAMBDA s :
        deserialize_fields_range(buf, ks, 1, Len(ks), s)))

\* n times the kind k
Rep(k, n) == [i \in 1..n |-> k]

\* the kinds of the two fields of a Phasor, of an Analog and of a Freq under
\* the format word of the context
Phasor_kinds(format) ==
    CASE BitAnd(format, 3) = 0 -> <<"int16", "int16">>
      [] BitAnd(format, 3) = 1 -> <<"uint16", "int16">>
      [] OTHER                 -> <<"float", "float">>
Analog_kind(format) == IF BitAnd(format, 4) # 0 THEN "float" ELSE "int16"
Freq_kind(format) == IF BitAnd(format, 8) # 0 THEN "float" ELSE "int16"

\* the i-th of the values v, or 0: a field that was not read keeps the value
\* it was constructed or resized with
filled(v, i) == IF i <= Len(v) THEN v[i] ELSE 0

\* Parser::deserialize(PmuData), pc the PmuConfig1 of the context at pmu_index
deserialize_PmuData(buf, p, pc) ==
    LET phnmr == Len(pc.phinfo)
        annmr == Len(pc.aninfo)
        dgnmr == Len(pc.dginfo)
    IN Let(deserialize_fields(buf, p,
                 <<"uint16">> \o Flatten(Rep(Phasor_kinds(pc.format), phnmr))
                     \o Rep(Freq_kind(pc.format), 2)
                     \o Rep(Analog_kind(pc.format), annmr)
                     \o Rep("uint16", dgnmr), <<>>, 0), LAMBDA d :
       [r |-> IF is_ok(d.r)
              THEN ok(2 + 2 * (IF Freq_kind(pc.format) = "float" THEN 4 ELSE 2))
              ELSE d.r,
        p |-> d.p,
        v |-> [stat |-> filled(d.v, 1),
               phasor |-> [i \in 1..phnmr |->
                   [index |-> BitAnd(pc.format, 3),
                    a |-> filled(d.v, 2 * i), b |-> filled(d.v, 2 * i + 1)]],
               freq |-> [index |-> BitAnd(pc.format, 8) \div 8,
                         v |-> filled(d.v, 2 + 2 * phnmr)],
               dfreq |-> [index |-> BitAnd(pc.format, 8) \div 8,
                          v |-> filled(d.v, 3 + 2 * phnmr)],
               analog |-> [i \in 1..annmr |->
                   [index |-> BitAnd(pc.format, 4) \div 4,
                    v |-> filled(d.v, 3 + 2 * phnmr + i)]],
               digital |-> [i \in 1..dgnmr |-> filled(d.v, 3 + 2 * phnmr + annmr + i)]]])

\* Parser::deserialize(Data) with its loop over d->pmus: context->reset(),
\* then next_pmu() after every PmuData
RECURSIVE deserialize_pmus(_, _, _, _, _)
deserialize_pmus(buf, p, context, i, pmus) ==
    IF i > Len(context.pmus) THEN [r |-> ok(0), p |-> p, v |-> pmus]
    ELSE Let(deserialize_PmuData(buf, p, context.pmus[i]), LAMBDA d :
             IF ~is_ok(d.r) THEN [r |-> d.r, p |-> d.p, v |-> Append(pmus, d.v)]
             ELSE Let(Append(pmus, d.v), LAMBDA got :
                      deserialize_pmus(buf, d.p, context, i + 1, got)))

\* a parser that finds no context whatever was bound
deserialize_Data_never_bound(context) == FALSE

\* if (!context): a Data message needs the context
deserialize_Data_bound(context) == context # nullopt

deserialize_Data(buf, p, context) ==
    IF ~deserialize_Data_bound(context)
    THEN [r |-> parser_error(MissingConfig), p |-> p, v |-> [index |-> 0, pmus |-> <<>>]]
    ELSE Let(deserialize_pmus(buf, p, context, 1, <<>>), LAMBDA d :
             [r |-> d.r, p |-> d.p, v |-> [index |-> 0, pmus |-> d.v]])

\* Parser::remaining
remaining(p) == p.end - p.cursor

deserialize_Header(buf, p) ==
    Let(copy_to(buf, p, remaining(p)), LAMBDA c :
        [r |-> c.r, p |-> c.p, v |-> [index |-> 1, data |-> c.v]])

\* the PmuConfig1 of the fields h (the name, idcode, format and the counts)
\* and b (the names, the units, fnom and cfgcnt)
deserialize_PmuConfig1_value(h, b, phnmr, annmr, dgnmr) ==
    LET names == phnmr + annmr + 16 * dgnmr
    IN [stn |-> h[1], idcode |-> h[2], format |-> h[3],
        phinfo |-> [i \in 1..phnmr |-> [nam |-> b[i], unit |-> b[names + i]]],
        aninfo |-> [i \in 1..annmr |->
            [nam |-> b[phnmr + i], unit |-> b[names + phnmr + i]]],
        dginfo |-> [i \in 1..dgnmr |->
            [nam |-> [j \in 1..16 |-> b[phnmr + annmr + 16 * (i - 1) + j]],
             unit |-> b[names + phnmr + annmr + i]]],
        fnom |-> b[names + phnmr + annmr + dgnmr + 1],
        cfgcnt |-> b[names + phnmr + annmr + dgnmr + 2]]

\* Parser::deserialize(PmuConfig1): the counts first, then the names, the
\* units, fnom and cfgcnt
deserialize_PmuConfig1(buf, p) ==
    Let(deserialize_fields(buf, p,
            <<"Name1", "uint16", "uint16", "uint16", "uint16", "uint16">>, <<>>, 0),
        LAMBDA h :
    IF ~is_ok(h.r) THEN [r |-> h.r, p |-> h.p, v |-> <<>>] ELSE
    Let(deserialize_fields(buf, h.p,
            Rep("Name1", h.v[4]) \o Rep("Name1", h.v[5]) \o Rep("Name1", 16 * h.v[6])
                \o Rep("uint32", h.v[4]) \o Rep("uint32", h.v[5]) \o Rep("uint32", h.v[6])
                \o <<"uint16", "uint16">>, <<>>, 0),
        LAMBDA b :
    IF ~is_ok(b.r) THEN [r |-> b.r, p |-> b.p, v |-> <<>>]
    ELSE [r |-> ok(0), p |-> b.p,
          v |-> deserialize_PmuConfig1_value(h.v, b.v, h.v[4], h.v[5], h.v[6])]))

\* the loop of Parser::deserialize(std::vector<PmuConfig1>) over n elements
RECURSIVE deserialize_PmuConfigs(_, _, _, _)
deserialize_PmuConfigs(buf, p, n, pmus) ==
    IF n = 0 THEN [r |-> ok(0), p |-> p, v |-> pmus]
    ELSE Let(deserialize_PmuConfig1(buf, p), LAMBDA d :
             IF ~is_ok(d.r) THEN [r |-> d.r, p |-> d.p, v |-> pmus]
             ELSE Let(Append(pmus, d.v), LAMBDA got :
                      deserialize_PmuConfigs(buf, d.p, n - 1, got)))

\* Parser::deserialize(Config1), and (Config2) through the cast to Config1
deserialize_Config1(buf, p, index) ==
    LET none == [index |-> index, time_base |-> 0, pmus |-> <<>>, data_rate |-> 0]
    IN Let(deserialize_fields(buf, p, <<"uint32", "uint16">>, <<>>, 0), LAMBDA h :
       IF ~is_ok(h.r) THEN [r |-> h.r, p |-> h.p, v |-> none] ELSE
       Let(deserialize_PmuConfigs(buf, h.p, h.v[2], <<>>), LAMBDA c :
       IF ~is_ok(c.r) THEN [r |-> c.r, p |-> c.p, v |-> none] ELSE
       Let(deserialize_field(buf, c.p, "uint16"), LAMBDA t :
       IF ~is_ok(t.r) THEN [r |-> t.r, p |-> t.p, v |-> none]
       ELSE [r |-> ok(2), p |-> t.p,
             v |-> [index |-> index, time_base |-> h.v[1], pmus |-> c.v,
                    data_rate |-> t.v]])))

deserialize_Config3(buf, p) == [r |-> ok(0), p |-> p, v |-> [index |-> 5]]

deserialize_Command(buf, p) ==
    Let(deserialize_field(buf, p, "uint16"), LAMBDA c :
    IF ~is_ok(c.r)
    THEN [r |-> c.r, p |-> c.p, v |-> [index |-> 4, cmd |-> 0, ext |-> <<>>]]
    ELSE Let(copy_to(buf, c.p, remaining(c.p)), LAMBDA e :
             [r |-> e.r, p |-> e.p, v |-> [index |-> 4, cmd |-> c.v, ext |-> e.v]]))

\* the type nibbles of the switch of deserialize(Frame), and the index of the
\* Message each selects
deserialize_types == {0, 16, 32, 48, 64, 80}

deserialize_Message(buf, p, type, context) ==
    CASE type = 0  -> deserialize_Data(buf, p, context)
      [] type = 16 -> deserialize_Header(buf, p)
      [] type = 32 -> deserialize_Config1(buf, p, 2)
      [] type = 48 -> deserialize_Config1(buf, p, 3)
      [] type = 64 -> deserialize_Command(buf, p)
      [] OTHER     -> deserialize_Config3(buf, p)

\* a parser that takes every checksum for the right one
deserialize_crc_any(crc, calculated_crc) == TRUE

\* crc != calculated_crc is an error
deserialize_crc_ok(crc, calculated_crc) == crc = calculated_crc

\* what Parser::deserialize(Frame) returns: the Result, the Frame as far as
\* it was filled, and (at) the statement that returned
deserialize_return(r, f, at) == [r |-> r, f |-> f, at |-> at]

\* Parser::deserialize(Frame) of the length bytes of buf
deserialize_Frame(buf, length, context) ==
    Let(deserialize_fields(buf, Parser(0, length),
            <<"uint16", "uint16", "uint16", "uint32", "uint32">>, <<>>, 0), LAMBDA h :
    Let([version |-> 0, idcode |-> filled(h.v, 3), soc |-> filled(h.v, 4),
         fracsec |-> filled(h.v, 5), message |-> [index |-> 0, pmus |-> <<>>]], LAMBDA f1 :
    IF ~is_ok(h.r) THEN deserialize_return(h.r, f1, "header") ELSE
    Let(h.v[2] - 2, LAMBDA contentsize :
    Let(slice(h.p, -h.r, contentsize), LAMBDA sl :
    IF ~is_ok(sl) THEN deserialize_return(sl, f1, "slice") ELSE
    Let(calculate_crc(buf, sl, contentsize % 65536), LAMBDA calculated_crc :
    IF BitAnd(h.v[1], 65280) # 43520
    THEN deserialize_return(parser_error(InvalidValue), f1, "sync") ELSE
    Let([f1 EXCEPT !.version = BitAnd(h.v[1], 15)], LAMBDA f2 :
    IF BitAnd(h.v[1], 240) \notin deserialize_types
    THEN deserialize_return(parser_error(InvalidValue), f2, "type") ELSE
    Let(require(h.p, contentsize - h.r), LAMBDA q :
    Let(deserialize_Message(buf, Parser(q.r, contentsize - h.r), BitAnd(h.v[1], 240),
                            context), LAMBDA m :
    Let([f2 EXCEPT !.message = m.v], LAMBDA f3 :
    IF ~is_ok(m.r) THEN deserialize_return(m.r, f3, "message") ELSE
    Let(deserialize_field(buf, q.p, "uint16"), LAMBDA crc :
    IF ~is_ok(crc.r) THEN deserialize_return(crc.r, f3, "crc")
    ELSE IF ~deserialize_crc_ok(crc.v, calculated_crc)
    THEN deserialize_return(parser_error(InvalidChecksum), f3, "checksum")
    ELSE deserialize_return(ok(0), f3, "return")))))))))))

\* ---------------------------------------------------------------- the codec at work
\* the length of the buffer a frame is serialized into, and of one too short
\* for anything but the envelope
BufferLength == 320
ShortLength == 15

\* a name of n characters, none of them zero
Name(n) == [i \in 1..n |-> 64 + i]

\* struct ChannelInfo, struct DigitalInfo and struct PmuConfig1 with names of
\* n characters and a station name of stn characters
ChannelInfo(n) == [nam |-> Name(n), unit |-> 16909060]
DigitalInfo(n) == [nam |-> [j \in 1..16 |-> Name(n)], unit |-> 3]
PmuConfig1(stn, format, phnmr, annmr, dgnmr, n) ==
    [stn |-> Name(stn), idcode |-> 7, format |-> format,
     phinfo |-> [i \in 1..phnmr |-> ChannelInfo(n)],
     aninfo |-> [i \in 1..annmr |-> ChannelInfo(n)],
     dginfo |-> [i \in 1..dgnmr |-> DigitalInfo(n)],
     fnom |-> 1, cfgcnt |-> 2]

\* struct Config2, the Config of a Context
Config2(pmus) == [time_base |-> 1000000, pmus |-> pmus, data_rate |-> 50]

\* the configs: no PMU; one PMU in 16-bit integers; two PMUs of format 0x0003
\* (polar float phasors, integer freq and analog); one PMU all in floats with a
\* digital word; one PMU with a station name and a channel name of 3 characters
Contexts ==
    { Config2(<<>>),
      Config2(<<PmuConfig1(16, 0, 1, 1, 0, 16)>>),
      Config2(<<PmuConfig1(16, 3, 1, 1, 0, 16), PmuConfig1(16, 3, 1, 0, 0, 16)>>),
      Config2(<<PmuConfig1(16, 15, 1, 1, 1, 16)>>),
      Config2(<<PmuConfig1(3, 0, 1, 0, 0, 3)>>) }

\* struct PmuData in the shape the PmuConfig1 pc asks for: negative integers,
\* a magnitude above 32767, the floats 1.0 and 2.0
PmuData(pc) ==
    LET ph == BitAnd(pc.format, 3)
        an == BitAnd(pc.format, 4) \div 4
        fr == BitAnd(pc.format, 8) \div 8
    IN [stat |-> 1,
        phasor |-> [i \in 1..Len(pc.phinfo) |->
            [index |-> ph,
             a |-> CASE ph = 0 -> -2 [] ph = 1 -> 40000 [] OTHER -> 1065353216,
             b |-> IF ph < 2 THEN -3 ELSE 1073741824]],
        freq |-> [index |-> fr, v |-> IF fr = 0 THEN -5 ELSE 1065353216],
        dfreq |-> [index |-> fr, v |-> IF fr = 0 THEN 6 ELSE 1073741824],
        analog |-> [i \in 1..Len(pc.aninfo) |->
            [index |-> an, v |-> IF an = 0 THEN -7 ELSE 1065353216]],
        digital |-> [i \in 1..Len(pc.dginfo) |-> 43981]]

\* the Messages: Data in the shape of a config, Header, Config1 and Config2
\* of a config, Command, Config3
Data(c) == [index |-> 0, pmus |-> [i \in DOMAIN c.pmus |-> PmuData(c.pmus[i])]]
Header(data) == [index |-> 1, data |-> data]
Config1(c) == [index |-> 2, time_base |-> c.time_base, pmus |-> c.pmus,
               data_rate |-> c.data_rate]
Config2Message(c) == [Config1(c) EXCEPT !.index = 3]
Command(cmd, ext) == [index |-> 4, cmd |-> cmd, ext |-> ext]
Config3 == [index |-> 5]

\* struct Frame of version 1
Frame(message) ==
    [version |-> 1, idcode |-> 258, soc |-> 16909060, fracsec |-> 16711935,
     message |-> message]

\* the frames to serialize, each with the context of the parser: every Data
\* with its config, with no config and (one) with a config of another shape
Frames ==
    UNION { { [frame |-> Frame(Data(c)), context |-> x] : x \in {c, nullopt} } :
              c \in Contexts }
    \cup { [frame |-> Frame(Data(Config2(<<PmuConfig1(16, 0, 1, 1, 0, 16)>>))),
            context |-> Config2(<<>>)] }
    \cup { [frame |-> Frame(m), context |-> nullopt] :
             m \in { Header(<<>>), Header(<<72, 105>>), Command(1, <<>>),
                     Command(5, <<9, 8>>), Config3 }
                   \cup { Config1(c) : c \in Contexts }
                   \cup { Config2Message(c) : c \in Contexts } }

\* what happens to the bytes on their way to the receiving parser
Faults ==
    { [kind |-> k, n |-> 0] : k \in {"none", "crc", "sync", "type", "flip"} }
    \cup { [kind |-> "cut", n |-> n] : n \in {1, 3} }
    \cup { [kind |-> "keep", n |-> 10] }

Damage(b, damage) ==
    CASE damage.kind = "crc"  -> [b EXCEPT ![Len(b)] = (@ + 1) % 256]
      [] damage.kind = "sync" -> [b EXCEPT ![1] = 85]
      [] damage.kind = "type" -> [b EXCEPT ![2] = 96 + (@ % 16)]
      [] damage.kind = "flip" -> [b EXCEPT ![5] = (@ + 1) % 256]
      [] damage.kind = "cut"  -> SubSeq(b, 1, Len(b) - damage.n)
      [] damage.kind = "keep" -> SubSeq(b, 1, damage.n)
      [] OTHER                -> b

\* no path is configured
EngineOff ==
    InitWith({[vectorize |-> [n \in Nodes |-> 1], paths |-> [p \in Paths |-> NoPath]]},
             FALSE)

CodecInit ==
    /\ EngineOff
    /\ \E in \in Frames :
          codec = [pc |-> "frame", frame |-> in.frame, context |-> in.context]
    /\ daemon = Off /\ mqtt = Off /\ ngsi = Off /\ opal = Off /\ cfg = Off
    /\ lists = Off /\ mapping = Off

\* a Parser over a buffer of length bytes serializes the frame
serialize ==
    /\ codec.pc = "frame"
    /\ \E length \in {BufferLength, ShortLength} :
       \E s \in {serialize_Frame(codec.frame, codec.context, length)} :
          codec' = [pc |-> "bytes", frame |-> codec.frame, context |-> codec.context,
                       buf |-> s.buf, written |-> s.p.cursor, r |-> s.r]
    /\ UNCHANGED <<engine, daemon, mqtt, ngsi, opal, cfg, lists, mapping>>

\* a Parser, with the sender's config or with none, deserializes the bytes
\* that were written, as they arrive
deserialize ==
    /\ codec.pc = "bytes"
    /\ is_ok(codec.r)
    /\ \E damage \in Faults, bound \in {codec.context, nullopt} :
       \E wire \in {Damage(SubSeq(codec.buf, 1, codec.written), damage)} :
       \E d \in {deserialize_Frame(wire, Len(wire), bound)} :
          codec' = [pc |-> "parsed", frame |-> codec.frame, context |-> codec.context,
                       buf |-> codec.buf, written |-> codec.written, r |-> codec.r,
                       fault |-> damage.kind, wire |-> wire, bound |-> bound,
                       result |-> d.r, out |-> d.f, at |-> d.at]
    /\ UNCHANGED <<engine, daemon, mqtt, ngsi, opal, cfg, lists, mapping>>

CodecNext == serialize \/ deserialize

CodecSpec == CodecInit /\ [][CodecNext]_vars

\* ---------------------------------------------------------------- the codec claims
\* CRC-CCITT-false by its definition: polynomial 0x1021, initial value 0xFFFF,
\* bit after bit, the most significant first
crc_bit(crc) == IF crc >= 32768 THEN BitXor((crc * 2) % 65536, 4129) ELSE crc * 2

crc_byte(crc, byte) ==
    Let(BitXor(crc, byte * 256), LAMBDA c0 :
    Let(crc_bit(c0), LAMBDA c1 : Let(crc_bit(c1), LAMBDA c2 :
    Let(crc_bit(c2), LAMBDA c3 : Let(crc_bit(c3), LAMBDA c4 :
    Let(crc_bit(c4), LAMBDA c5 : Let(crc_bit(c5), LAMBDA c6 :
    Let(crc_bit(c6), LAMBDA c7 : crc_bit(c7)))))))))

RECURSIVE crc_bytes(_, _, _, _)
crc_bytes(b, lo, hi, crc) ==
    IF lo > hi THEN crc
    ELSE IF lo = hi THEN crc_byte(crc, b[lo])
    ELSE Let((lo + hi) \div 2, LAMBDA mid :
         Let(crc_bytes(b, lo, mid, crc), LAMBDA next : crc_bytes(b, mid + 1, hi, next)))

crc_ccitt_false(b) == crc_bytes(b, 1, Len(b), 65535)

\* the bytes serialize(Frame) has written
Written == SubSeq(codec.buf, 1, codec.written)

\* the bytes reached a parser with the sender's config as they were written
Undamaged == codec.pc = "parsed" /\ codec.fault = "none" /\ codec.bound = codec.context

\* C21: for every valid Frame f of the kinds data, header, config-1, config-2
\* and command and its bound Config, deserialising the bytes serialize(f) has
\* produced succeeds and yields a Frame equal to f, of the same message kind.
C21_RoundTrip ==
    (Undamaged /\ codec.frame.message.index \in 0..4)
        => /\ codec.result = ok(0)
           /\ codec.out.message.index = codec.frame.message.index
           /\ codec.out = codec.frame

\* C22: for every Frame that serialises successfully, the last two bytes
\* written are the big-endian CRC-CCITT-false of all the bytes of the frame
\* before them, the back-patched frame size among them.
C22_TrailingCrc ==
    (codec.pc = "bytes" /\ is_ok(codec.r))
        => /\ codec.written >= 2
           /\ ntohs(SubSeq(Written, codec.written - 1, codec.written))
                  = crc_ccitt_false(SubSeq(Written, 1, codec.written - 2))

\* C30: for every Frame that serialises successfully, the back-patched 16-bit
\* frame size field equals the number of bytes written for the frame, the
\* CRC included, whatever the message kind and the number of PMUs.
C30_FrameSize ==
    (codec.pc = "bytes" /\ is_ok(codec.r))
        => ntohs(SubSeq(Written, 3, 4)) = codec.written

\* the frame size field of the bytes that reached the parser
WireSize == ntohs(SubSeq(codec.wire, 3, 4))

\* the bytes that reached the parser hold the 14 bytes of the envelope and as
\* many bytes as the frame size field announces
Complete == Len(codec.wire) >= 14 /\ WireSize <= Len(codec.wire)

BadSync == codec.wire[1] # 170
UnknownType == codec.wire[2] \div 16 \notin 0..5

\* a complete data frame reached the parser
DataOnWire == Complete /\ ~BadSync /\ codec.wire[2] \div 16 = 0

\* C23: deserialising and serialising a data frame with a parser that has no
\* bound config fails with missing-config and produces no PMU data; with a
\* bound config neither ever reports missing-config.
C23_MissingConfig ==
    /\ (codec.pc = "parsed" /\ DataOnWire /\ codec.bound = nullopt)
           => /\ codec.result = parser_error(MissingConfig)
              /\ codec.out.message = [index |-> 0, pmus |-> <<>>]
    /\ (codec.pc = "bytes" /\ codec.frame.message.index = 0 /\ codec.context = nullopt)
           => /\ codec.r = parser_error(MissingConfig)
              /\ codec.written = 14
    /\ (codec.pc = "parsed" /\ codec.bound # nullopt)
           => codec.result # parser_error(MissingConfig)
    /\ (codec.pc = "bytes" /\ codec.context # nullopt)
           => codec.r # parser_error(MissingConfig)

\* a data frame of two PMUs was refused by a parser without config, and one by
\* a parser with the config went past the check
C23_Witness ==
    /\ codec.pc = "parsed"
    /\ DataOnWire
    /\ Len(codec.frame.message.pmus) = 2
    /\ codec.bound = nullopt
    /\ codec.result = parser_error(MissingConfig)

\* the CRC field of the frame on the wire and the CRC of the bytes before it
WireCrc == ntohs(SubSeq(codec.wire, WireSize - 1, WireSize))
WireCrcExpected == crc_ccitt_false(SubSeq(codec.wire, 1, WireSize - 2))

\* a data frame reached a parser without config, which is the case of C23
Unbound == codec.bound = nullopt /\ codec.wire[2] \div 16 = 0

\* the header and the message were parsed
MessageParsed == codec.at \in {"crc", "checksum", "return"}

NODE_PARSED == "NODE_PARSED"
NODE_STARTED == "NODE_STARTED"
NODE_STOPPED == "NODE_STOPPED"
NODE_DESTROYED == "NODE_DESTROYED"
PATH_DESTROYED == "PATH_DESTROYED"
TYPES_NONE == "TYPES_NONE"
TYPES_INITIALIZED == "TYPES_INITIALIZED"
TYPES_DEINITIALIZED == "TYPES_DEINITIALIZED"

\* what the configuration file holds: the nodes and the paths in the order of
\* the lists
DaemonConfigs ==
    { [nodes |-> ns, paths |-> ps] :
        ns \in {<<"A", "B">>, <<"A", "B", "C">>},
        ps \in {<<>>, <<[in |-> "A", out |-> "B"]>>,
                <<[in |-> "A", out |-> "B"], [in |-> "B", out |-> "A"]>>} }

\* node_start, node_stop and node_destroy of one node, node_init and
\* node_deinit of the node types, path_start, path_stop and path_destroy of
\* one path
node_start(n) == [n EXCEPT !.state = NODE_STARTED]
node_stop(n) == [n EXCEPT !.state = NODE_STOPPED]
node_destroy(n) == [n EXCEPT !.state = NODE_DESTROYED]
node_init == TYPES_INITIALIZED
node_deinit == TYPES_DEINITIALIZED
daemon_path_start(p) == [p EXCEPT !.state = PATH_RUNNING]
daemon_path_stop(p) == [p EXCEPT !.state = PATH_STOPPED]
path_destroy(p) == [p EXCEPT !.state = PATH_DESTROYED]

\* main after list_init, realtime_init and signals_init
DaemonInit ==
    /\ EngineOff
    /\ daemon = [pc |-> "config_parse", i |-> 1, nodes |-> <<>>, paths |-> <<>>,
                 types |-> TYPES_NONE]
    /\ codec = Off /\ mqtt = Off /\ ngsi = Off /\ opal = Off /\ cfg = Off
    /\ lists = Off /\ mapping = Off

\* config_parse fills the lists of nodes and paths
main_config_parse ==
    /\ daemon.pc = "config_parse"
    /\ \E c \in DaemonConfigs :
          daemon' = [daemon EXCEPT
              !.pc = "node_init",
              !.nodes = [k \in DOMAIN c.nodes |-> [name |-> c.nodes[k], state |-> NODE_PARSED]],
              !.paths = [k \in DOMAIN c.paths |->
                            [in |-> c.paths[k].in, out |-> c.paths[k].out,
                             state |-> PATH_CREATED]]]
    /\ UNCHANGED <<engine, codec, mqtt, ngsi, opal, cfg, lists, mapping>>

main_node_init ==
    /\ daemon.pc = "node_init"
    /\ daemon' = [daemon EXCEPT !.pc = "node_start", !.i = 1, !.types = node_init]
    /\ UNCHANGED <<engine, codec, mqtt, ngsi, opal, cfg, lists, mapping>>

\* FOREACH(&nodes, it) node_start(it->node), one node a step
main_node_start ==
    /\ daemon.pc = "node_start"
    /\ daemon' = IF daemon.i > Len(daemon.nodes)
                  THEN [daemon EXCEPT !.pc = "path_start", !.i = 1]
                  ELSE [daemon EXCEPT !.i = @ + 1, !.nodes[daemon.i] = node_start(@)]
    /\ UNCHANGED <<engine, codec, mqtt, ngsi, opal, cfg, lists, mapping>>

\* FOREACH(&paths, it) path_start(it->path), one path a step; then pause()
main_path_start ==
    /\ daemon.pc = "path_start"
    /\ daemon' = IF daemon.i > Len(daemon.paths)
                  THEN [daemon EXCEPT !.pc = "pause", !.i = 1]
                  ELSE [daemon EXCEPT !.i = @ + 1, !.paths[daemon.i] = daemon_path_start(@)]
    /\ UNCHANGED <<engine, codec, mqtt, ngsi, opal, cfg, lists, mapping>>

\* SIGINT or SIGTERM: the handler quit interrupts main wherever it is
signal ==
    /\ daemon.pc \in {"config_parse", "node_init", "node_start", "path_start", "pause"}
    /\ daemon' = [daemon EXCEPT !.pc = "quit_path_stop", !.i = 1]
    /\ UNCHANGED <<engine, codec, mqtt, ngsi, opal, cfg, lists, mapping>>

\* FOREACH(&paths, it) path_stop(it->path)
quit_path_stop ==
    /\ daemon.pc = "quit_path_stop"
    /\ daemon' = IF daemon.i > Len(daemon.paths)
                  THEN [daemon EXCEPT !.pc = "quit_node_stop", !.i = 1]
                  ELSE [daemon EXCEPT !.i = @ + 1, !.paths[daemon.i] = daemon_path_stop(@)]
    /\ UNCHANGED <<engine, codec, mqtt, ngsi, opal, cfg, lists, mapping>>

\* FOREACH(&nodes, it) node_stop(it->node)
quit_node_stop ==
    /\ daemon.pc = "quit_node_stop"
    /\ daemon' = IF daemon.i > Len(daemon.nodes)
                  THEN [daemon EXCEPT !.pc = "quit_node_deinit", !.i = 1]
                  ELSE [daemon EXCEPT !.i = @ + 1, !.nodes[daemon.i] = node_stop(@)]
    /\ UNCHANGED <<engine, codec, mqtt, ngsi, opal, cfg, lists, mapping>>

\* node_deinit()
quit_node_deinit ==
    /\ daemon.pc = "quit_node_deinit"
    /\ daemon' = [daemon EXCEPT !.pc = "quit_destroy_paths", !.i = 1, !.types = node_deinit]
    /\ UNCHANGED <<engine, codec, mqtt, ngsi, opal, cfg, lists, mapping>>

\* list_destroy(&paths): the destructor path_destroy for every element
quit_destroy_paths ==
    /\ daemon.pc = "quit_destroy_paths"
    /\ daemon' = IF daemon.i > Len(daemon.paths)
                  THEN [daemon EXCEPT !.pc = "quit_destroy_nodes", !.i = 1]
                  ELSE [daemon EXCEPT !.i = @ + 1, !.paths[daemon.i] = path_destroy(@)]
    /\ UNCHANGED <<engine, codec, mqtt, ngsi, opal, cfg, lists, mapping>>

\* list_destroy(&nodes): the destructor node_destroy for every element; then
\* config_destroy and _exit
quit_destroy_nodes ==
    /\ daemon.pc = "quit_destroy_nodes"
    /\ daemon' = IF daemon.i > Len(daemon.nodes)
                  THEN [daemon EXCEPT !.pc = "exit", !.i = 1]
                  ELSE [daemon EXCEPT !.i = @ + 1, !.nodes[daemon.i] = node_destroy(@)]
    /\ UNCHANGED <<engine, codec, mqtt, ngsi, opal, cfg, lists, mapping>>

quit ==
    \/ quit_path_stop
    \/ quit_node_stop
    \/ quit_node_deinit
    \/ quit_destroy_paths
    \/ quit_destroy_nodes

DaemonNext ==
    \/ main_config_parse
    \/ main_node_init
    \/ main_node_start
    \/ main_path_start
    \/ signal
    \/ quit

DaemonSpec == DaemonInit /\ [][DaemonNext]_vars

\* the paths that use the node of the name n
PathsUsing(n) == {k \in DOMAIN daemon.paths : n \in {daemon.paths[k].in, daemon.paths[k].out}}

\* C25: on shutdown the daemon stops every path, then destroys every node,
\* and tears down the node types only after all nodes are destroyed; no node
\* is stopped or destroyed while a path using it is running, and no node is
\* destroyed after its node type was torn down.
C25_ShutdownOrder ==
    /\ \A k \in DOMAIN daemon.nodes :
          daemon.nodes[k].state \in {NODE_STOPPED, NODE_DESTROYED}
              => \A q \in PathsUsing(daemon.nodes[k].name) :
                    daemon.paths[q].state # PATH_RUNNING
    /\ daemon.types = TYPES_DEINITIALIZED
          => \A k \in DOMAIN daemon.nodes : daemon.nodes[k].state = NODE_DESTROYED

\* ================================================================ the MQTT node type
\* the most messages the queue of a node holds, and the error mosquitto_publish
\* returns without connection
MaxQueued == 2
MOSQ_ERR_NO_CONN == 4

\* the clients that mqtt_start has pushed, with and without publish topic;
\* persisting: the warning of a persisting connection error was the last word
\* of the loop thread about the client
MqttClient(publish) ==
    [publish |-> publish, connected |-> TRUE, queue |-> 0, reconnects |-> 0,
     persisting |-> FALSE]

NoCall == [op |-> "none", node |-> 0, persisting |-> FALSE, ret |-> 0]

MqttInit ==
    /\ EngineOff
    /\ mqtt = [pc |-> "loop", i |-> 1,
               clients |-> <<MqttClient(TRUE), MqttClient(FALSE)>>, call |-> NoCall]
    /\ codec = Off /\ daemon = Off /\ ngsi = Off /\ opal = Off /\ cfg = Off
    /\ lists = Off /\ mapping = Off

\* the for loop of mosquitto_loop_thread moves on to the next client
mosquitto_loop_thread_next(i, clients) == IF i >= Len(clients) THEN 1 ELSE i + 1

\* ret = mosquitto_loop(m->client, 0, 1): with the connection up a message may
\* arrive (mqtt_message_cb pushes it to the queue of the node)
mosquitto_loop ==
    /\ mqtt.pc = "loop"
    /\ LET c == mqtt.clients[mqtt.i]
       IN IF c.connected
          THEN \E msg \in {0, 1} :
                  mqtt' = [mqtt EXCEPT
                      !.i = mosquitto_loop_thread_next(@, mqtt.clients),
                      !.clients[mqtt.i] = [c EXCEPT !.queue = Min(@ + msg, MaxQueued),
                                                    !.reconnects = 0,
                                                    !.persisting = FALSE]]
          ELSE mqtt' = [mqtt EXCEPT !.pc = "reconnect",
                                    !.clients[mqtt.i].reconnects = 0]
    /\ UNCHANGED <<engine, codec, daemon, ngsi, opal, cfg, lists, mapping>>

\* ret = mosquitto_reconnect(m->client) after the warning; the broker is back
\* or it is not
mosquitto_reconnect ==
    /\ mqtt.pc = "reconnect"
    /\ \E back \in BOOLEAN :
          mqtt' = [mqtt EXCEPT !.pc = "loop_again",
                               !.clients[mqtt.i].reconnects = @ + 1,
                               !.clients[mqtt.i].connected = back]
    /\ UNCHANGED <<engine, codec, daemon, ngsi, opal, cfg, lists, mapping>>

\* the second mosquitto_loop: a failure is a warning and nothing else
mosquitto_loop_again ==
    /\ mqtt.pc = "loop_again"
    /\ mqtt' = [mqtt EXCEPT !.pc = "loop",
                             !.i = mosquitto_loop_thread_next(@, mqtt.clients),
                             !.clients[mqtt.i].persisting = ~mqtt.clients[mqtt.i].connected]
    /\ UNCHANGED <<engine, codec, daemon, ngsi, opal, cfg, lists, mapping>>

\* the connection of a client to the broker breaks
disconnect ==
    /\ \E k \in DOMAIN mqtt.clients :
          /\ mqtt.clients[k].connected
          /\ mqtt' = [mqtt EXCEPT !.clients[k].connected = FALSE]
    /\ UNCHANGED <<engine, codec, daemon, ngsi, opal, cfg, lists, mapping>>

\* mqtt_read of cnt samples: queue_signalled_pull_many waits for a sample
mqtt_read ==
    /\ \E k \in DOMAIN mqtt.clients, cnt \in 1..2 :
          /\ mqtt.clients[k].queue > 0
          /\ LET pulled == Min(cnt, mqtt.clients[k].queue)
             IN mqtt' = [mqtt EXCEPT
                    !.clients[k].queue = @ - pulled,
                    !.call = [op |-> "read", node |-> k,
                              persisting |-> mqtt.clients[k].persisting, ret |-> pulled]]
    /\ UNCHANGED <<engine, codec, daemon, ngsi, opal, cfg, lists, mapping>>

\* what mosquitto_publish may return
mosquitto_publish(connected) == IF connected THEN {0} ELSE {0, MOSQ_ERR_NO_CONN}

\* mqtt_write of cnt samples: io_sprint formats them or fails, then the
\* payload is published if there is a publish topic
mqtt_write ==
    /\ \E k \in DOMAIN mqtt.clients, cnt \in 1..2, io_sprint \in {0, -1} :
       \E ret \in IF mqtt.clients[k].publish
                  THEN mosquitto_publish(mqtt.clients[k].connected) ELSE {0} :
          mqtt' = [mqtt EXCEPT
              !.call = [op |-> "write", node |-> k,
                        persisting |-> mqtt.clients[k].persisting,
                        ret |-> IF io_sprint < 0 THEN io_sprint
                                ELSE IF ret # 0 THEN -ret ELSE cnt]]
    /\ UNCHANGED <<engine, codec, daemon, ngsi, opal, cfg, lists, mapping>>

MqttNext ==
    \/ mosquitto_loop
    \/ mosquitto_reconnect
    \/ mosquitto_loop_again
    \/ disconnect
    \/ mqtt_read
    \/ mqtt_write

MqttSpec == MqttInit /\ [][MqttNext]_vars

\* C26: when the broker loop reports a connection error for an MQTT node,
\* exactly one reconnect is attempted for that failure; if the failure
\* persists the node is left in an error state, and read and write calls on
\* that node report the error instead of succeeding.
C26_BrokerFailure ==
    /\ \A k \in DOMAIN mqtt.clients :
          /\ mqtt.clients[k].reconnects <= 1
          /\ (mqtt.pc = "loop_again" /\ mqtt.i = k) => mqtt.clients[k].reconnects = 1
    /\ (mqtt.call.op \in {"read", "write"} /\ mqtt.call.persisting)
          => mqtt.call.ret < 0

\* ================================================================ the NGSI node type
\* the most requests a node makes by ngsi_write
MaxWrites == 3

NGSI_FLAT == "NGSI_FLAT"
NGSI_CHILDREN == "NGSI_CHILDREN"

\* the HTTP response code that is a success, and one that is not
HTTP_OK == 200
HTTP_NOT_FOUND == 404

\* ngsi_prepare_context for a mapping of two attributes of two entities: the
\* ids of the contextElements and the value array of every attribute
ngsi_prepare_context == [updateAction |-> "", ids |-> <<"e1", "e2">>, values |-> <<<<>>, <<>>>>]

\* json_uuid(): an id that was never used
json_uuid(uuid) == <<"uuid", uuid>>

NgsiInit ==
    /\ EngineOff
    /\ \E structure \in {NGSI_FLAT, NGSI_CHILDREN} :
          ngsi = [state |-> "parsed", structure |-> structure,
                  context |-> ngsi_prepare_context, uuid |-> 0, requests |-> <<>>,
                  ret |-> 0]
    /\ codec = Off /\ daemon = Off /\ mqtt = Off /\ opal = Off /\ cfg = Off
    /\ lists = Off /\ mapping = Off

\* ngsi_request posts the context and returns the response code
ngsi_request(by, context, code) ==
    [by |-> by, updateAction |-> context.updateAction, ids |-> context.ids,
     values |-> context.values, code |-> code]

ngsi_open ==
    /\ ngsi.state = "parsed"
    /\ \E code \in {HTTP_OK, HTTP_NOT_FOUND} :
          LET context == [ngsi.context EXCEPT !.updateAction = "APPEND"]
          IN ngsi' = [ngsi EXCEPT
                 !.context = context,
                 !.requests = Append(@, ngsi_request("open", context, code)),
                 !.ret = IF code = HTTP_OK THEN 0 ELSE -1,
                 !.state = IF code = HTTP_OK THEN "open" ELSE "failed"]
    /\ UNCHANGED <<engine, codec, daemon, mqtt, opal, cfg, lists, mapping>>

\* a write that always asks for an update
ngsi_write_updateAction_flat(structure) == "UPDATE"

\* the updateAction of ngsi_write
ngsi_write_updateAction(structure) ==
    IF structure = NGSI_CHILDREN THEN "APPEND" ELSE "UPDATE"

\* the context after the loop over the mapping for a message of length
\* values all of them v, and after the new ids of the children structure
ngsi_write_context(context, structure, uuid, length, v) ==
    [updateAction |-> ngsi_write_updateAction(structure),
     ids |-> IF structure = NGSI_CHILDREN
             THEN [k \in DOMAIN context.ids |-> json_uuid(uuid + k)]
             ELSE context.ids,
     values |-> [j \in DOMAIN context.values |->
                    IF j <= length THEN <<v>> ELSE context.values[j]]]

\* ngsi_write of cnt messages, the first of length values: error() ends the
\* process
ngsi_write ==
    /\ ngsi.state = "open"
    /\ Len(SelectSeq(ngsi.requests, LAMBDA r : r.by = "write")) < MaxWrites
    /\ \E cnt \in 1..2, length \in 1..2, v \in 1..2, code \in {HTTP_OK, HTTP_NOT_FOUND} :
          IF cnt > 1
          THEN ngsi' = [ngsi EXCEPT !.state = "error", !.ret = -1]
          ELSE LET context == ngsi_write_context(ngsi.context, ngsi.structure,
                                                 ngsi.uuid, length, v)
               IN ngsi' = [ngsi EXCEPT
                      !.context = context,
                      !.uuid = IF ngsi.structure = NGSI_CHILDREN
                               THEN @ + Len(context.ids) ELSE @,
                      !.requests = Append(@, ngsi_request("write", context, code)),
                      !.ret = IF code = HTTP_OK THEN 1 ELSE -1,
                      !.state = IF code = HTTP_OK THEN "open" ELSE "error"]
    /\ UNCHANGED <<engine, codec, daemon, mqtt, opal, cfg, lists, mapping>>

\* code is 0 or -1 after the first comparison, never 200 in the second
ngsi_close ==
    /\ ngsi.state = "open"
    /\ \E response \in {HTTP_OK, HTTP_NOT_FOUND} :
          LET context == [ngsi.context EXCEPT !.updateAction = "DELETE"]
              code == IF response = HTTP_OK THEN 0 ELSE -1
          IN ngsi' = [ngsi EXCEPT
                 !.context = context,
                 !.requests = Append(@, ngsi_request("close", context, response)),
                 !.ret = IF code = HTTP_OK THEN 0 ELSE -1,
                 !.state = "closed"]
    /\ UNCHANGED <<engine, codec, daemon, mqtt, opal, cfg, lists, mapping>>

NgsiNext == ngsi_open \/ ngsi_write \/ ngsi_close

NgsiSpec == NgsiInit /\ [][NgsiNext]_vars

\* the requests made at open and at close ask for APPEND and for DELETE
OpenAndClose ==
    \A k \in DOMAIN ngsi.requests :
        /\ ngsi.requests[k].by = "open" => ngsi.requests[k].updateAction = "APPEND"
        /\ ngsi.requests[k].by = "close" => ngsi.requests[k].updateAction = "DELETE"

\* C27: over the life of an NGSI node, in either entity structure, the
\* updateAction of its updateContext requests is APPEND for the request made
\* at open, UPDATE for every request made by write, DELETE for the one made
\* at close.
C27_UpdateActions ==
    /\ OpenAndClose
    /\ \A k \in DOMAIN ngsi.requests :
          ngsi.requests[k].by = "write" => ngsi.requests[k].updateAction = "UPDATE"

\* C27 as the code has it: APPEND at open and DELETE at close; a write asks
\* for UPDATE in the flat structure, and in the children structure for APPEND
\* of entities with ids no earlier request has named.
C27_UpdateActionsByStructure ==
    /\ OpenAndClose
    /\ \A k \in DOMAIN ngsi.requests :
          ngsi.requests[k].by = "write" =>
              IF ngsi.structure = NGSI_FLAT
              THEN /\ ngsi.requests[k].updateAction = "UPDATE"
                   /\ ngsi.requests[k].ids = ngsi.requests[1].ids
              ELSE /\ ngsi.requests[k].updateAction = "APPEND"
                   /\ \A j \in 1..(k - 1) :
                         Range(ngsi.requests[j].ids) \cap Range(ngsi.requests[k].ids) = {}

\* a node of the children structure was opened, has written twice and was
\* closed
C27_Witness ==
    /\ ngsi.structure = NGSI_CHILDREN
    /\ ngsi.state = "closed"
    /\ [k \in DOMAIN ngsi.requests |-> ngsi.requests[k].by]
           = <<"open", "write", "write", "close">>

\* ================================================================ the OPAL node type
\* the most samples a node reads from the model, and the most values of a
\* sample
MaxSequenceNo == 2
MaxCapacity == 2

\* sizeof(double)
SizeofDouble == 8

\* the samples handed to opal_read and opal_write: cnt pointers to samples of
\* one capacity, each holding length values
OpalSample(capacity, length) == [capacity |-> capacity, length |-> length, sequence |-> <<0, 0>>]

NoOpalCall ==
    [op |-> "none", cnt |-> 1, accessed |-> FALSE, api |-> 0, outcome |-> "return",
     ret |-> 0, s |-> OpalSample(1, 0)]

OpalInit ==
    /\ EngineOff
    /\ \E reply \in BOOLEAN :
          opal = [sequenceNo |-> 0, reply |-> reply, call |-> NoOpalCall]
    /\ codec = Off /\ daemon = Off /\ mqtt = Off /\ ngsi = Off /\ cfg = Off
    /\ lists = Off /\ mapping = Off

\* struct sample *s = smps[0] and the array double data[s->capacity] (or
\* [s->length]) ahead of the check of cnt: with cnt 0 the pointer is whatever
\* lies behind the array, the read of its field faults ("crash") or yields
\* some size; otherwise the first sample is read
opal_first(cnt) == IF cnt = 0 THEN {"crash", "garbage"} ELSE {"sample"}

\* a sample was read before cnt was checked
opal_accessed(first) == first = "sample"

\* the call as far as the check of cnt
opal_check(op, cnt, first, smp) ==
    [op |-> op, cnt |-> cnt, accessed |-> opal_accessed(first), api |-> 0,
     outcome |-> IF first = "crash" THEN "crash" ELSE "throw", ret |-> 0, s |-> smp]

\* opal_read: wait is what OpalWaitForAsyncSendRequest returns, state what
\* OpalGetAsyncModelState returns, len the length of the data of the send icon
opal_read ==
    /\ opal.sequenceNo < MaxSequenceNo
    /\ \E cnt \in 0..2, capacity \in 1..MaxCapacity :
       \E first \in opal_first(cnt), wait \in {"EOK", "error"},
          state \in {"STATE_RUN", "STATE_STOP"}, values \in 1..(MaxCapacity + 1) :
          LET smp == OpalSample(capacity, 0)
              check == opal_check("read", cnt, first, smp)
              len == IF values * SizeofDouble > capacity * SizeofDouble
                     THEN capacity * SizeofDouble ELSE values * SizeofDouble
              read == [smp EXCEPT !.sequence = htons(opal.sequenceNo),
                                  !.length = len \div SizeofDouble]
          IN IF first = "crash" \/ cnt # 1
             THEN opal' = [opal EXCEPT !.call = check]
             ELSE IF wait # "EOK"
             THEN opal' = [opal EXCEPT !.call =
                      [check EXCEPT !.outcome = IF state = "STATE_STOP" THEN "throw"
                                                ELSE "return",
                                    !.ret = -1]]
             ELSE opal' = [opal EXCEPT
                      !.sequenceNo = @ + 1,
                      !.call = [check EXCEPT
                          !.api = IF opal.reply THEN 2 ELSE 1,
                          !.outcome = IF state = "STATE_STOP" THEN "throw" ELSE "return",
                          !.ret = IF state = "STATE_STOP" THEN 0 ELSE 1,
                          !.s = read]]
    /\ UNCHANGED <<engine, codec, daemon, mqtt, ngsi, cfg, lists, mapping>>

\* opal_write: the status, the error and the data of the receive icon are set
opal_write ==
    /\ \E cnt \in 0..2, capacity \in 1..MaxCapacity, length \in 0..MaxCapacity :
       \E first \in opal_first(cnt), state \in {"STATE_RUN", "STATE_STOP"} :
          LET smp == [OpalSample(capacity, length) EXCEPT !.sequence = htons(opal.sequenceNo)]
              check == opal_check("write", cnt, first, smp)
          IN /\ length <= capacity
             /\ IF first = "crash" \/ cnt # 1
                THEN opal' = [opal EXCEPT !.call = check]
                ELSE IF state = "STATE_STOP"
                THEN opal' = [opal EXCEPT !.call = check]
                ELSE opal' = [opal EXCEPT !.call =
                         [check EXCEPT !.api = 3, !.outcome = "return", !.ret = 1]]
    /\ UNCHANGED <<engine, codec, daemon, mqtt, ngsi, cfg, lists, mapping>>

OpalNext == opal_read \/ opal_write

OpalSpec == OpalInit /\ [][OpalNext]_vars

\* C28: opal_read and opal_write called with a batch size other than 1, 0
\* included, fail with an error before any Sample is accessed and before any
\* OPAL API call changes state; with batch size 1 a successful call returns 1.
C28_BatchOfOne ==
    opal.call.op # "none" =>
        /\ opal.call.cnt # 1 =>
               /\ opal.call.outcome = "throw"
               /\ ~opal.call.accessed
               /\ opal.call.api = 0
        /\ (opal.call.cnt = 1 /\ opal.call.outcome = "return" /\ opal.call.ret >= 0)
               => opal.call.ret = 1

\* ================================================================ the configuration
\* the addresses malloc hands out
MaxAddress == 3
Addresses == 1..MaxAddress

\* a block that is not allocated
Free == [free |-> TRUE]

\* the names a path setting may give for in and out; "X" is no node
NodeNames == {"A", "B", "X"}

\* malloc: the address of a free block, 0 if there is none
malloc(heap) ==
    IF \E a \in Addresses : heap[a] = Free
    THEN CHOOSE a \in Addresses : heap[a] = Free /\ \A b \in 1..(a - 1) : heap[b] # Free
    ELSE 0

\* memset(path, 0, sizeof(struct path))
memset == [free |-> FALSE, in |-> "", out |-> "", rate |-> 0, cfg |-> "", skipped |-> 0, overrun |-> 0]

\* node_lookup_name: the node of that name, or NULL ("")
node_lookup_name(str) == IF str \in Nodes THEN str ELSE ""

\* list_add(*paths, path): the element becomes the head of the list
list_add(list, elem) == <<elem>> \o list

\* the lists of paths a setting is parsed into, up to a heap with no block left
ConfigInit ==
    /\ EngineOff
    /\ \E before \in 0..MaxAddress :
          cfg = [pc |-> "parse",
                 heap |-> [a \in Addresses |->
                    IF a <= before
                    THEN [memset EXCEPT !.in = "B", !.out = "A", !.cfg = "path0"]
                    ELSE Free],
                 paths |-> [k \in 1..before |-> k],
                 old |-> [k \in 1..before |-> k],
                 setting |-> [in |-> "", out |-> "", enabled |-> TRUE, reverse |-> FALSE],
                 ret |-> 0, touched |-> 0, before |-> <<>>]
    /\ codec = Off /\ daemon = Off /\ mqtt = Off /\ ngsi = Off /\ opal = Off
    /\ lists = Off /\ mapping = Off

\* a reverse path that is the path itself
config_parse_path_rev_alias(heap, p) == p

\* struct path *path_rev = malloc(sizeof(struct path))
config_parse_path_rev(heap, p) == malloc(heap)

\* memcpy(path_rev, path, ...), then path_rev->in = path->out and
\* path_rev->out = path->in, one assignment after the other
config_parse_path_swap(heap, p, p_rev) ==
    LET copied == [heap EXCEPT ![p_rev] = heap[p]]
        first == [copied EXCEPT ![p_rev].in = copied[p].out]
    IN [first EXCEPT ![p_rev].out = first[p].in]

\* config_parse_path for a setting cfg with in, out, enabled, reverse and
\* rate; cerror and error end the process
config_parse_path ==
    /\ cfg.pc = "parse"
    /\ \E in \in NodeNames, out \in NodeNames, enabled \in BOOLEAN, reverse \in BOOLEAN,
          rate \in {0, 1} :
          LET p == malloc(cfg.heap)
              setting == [in |-> in, out |-> out, enabled |-> enabled, reverse |-> reverse]
              parsed == [cfg.heap EXCEPT ![p] =
                            [memset EXCEPT !.in = node_lookup_name(in),
                                           !.out = node_lookup_name(out),
                                           !.rate = rate, !.cfg = "path1"]]
              added == list_add(cfg.paths, p)
              p_rev == config_parse_path_rev(parsed, p)
          IN IF p = 0 \/ node_lookup_name(in) = "" \/ node_lookup_name(out) = ""
             THEN cfg' = [cfg EXCEPT !.pc = "error", !.setting = setting, !.ret = -1]
             ELSE IF ~enabled
             THEN cfg' = [cfg EXCEPT !.pc = "parsed", !.setting = setting, !.ret = 0]
             ELSE IF ~reverse
             THEN cfg' = [cfg EXCEPT !.pc = "parsed", !.setting = setting, !.ret = 0,
                                     !.heap = parsed, !.paths = added]
             ELSE IF p_rev = 0
             THEN cfg' = [cfg EXCEPT !.pc = "error", !.setting = setting, !.ret = -1,
                                     !.heap = parsed, !.paths = added]
             ELSE cfg' = [cfg EXCEPT !.pc = "parsed", !.setting = setting, !.ret = 0,
                                     !.heap = config_parse_path_swap(parsed, p, p_rev),
                                     !.paths = list_add(added, p_rev)]
    /\ UNCHANGED <<engine, codec, daemon, mqtt, ngsi, opal, lists, mapping>>

\* the paths of the list, from its head on
ParsedPaths == [k \in DOMAIN cfg.paths |-> cfg.heap[cfg.paths[k]]]

\* a path of the list counts a skipped sample or an overrun of its timer
path_touch ==
    /\ cfg.pc = "parsed"
    /\ \E k \in DOMAIN cfg.paths, field \in {"skipped", "overrun"} :
          cfg' = [cfg EXCEPT !.pc = "touched", !.touched = k, !.before = ParsedPaths,
                             !.heap[cfg.paths[k]][field] = @ + 1]
    /\ UNCHANGED <<engine, codec, daemon, mqtt, ngsi, opal, lists, mapping>>

ConfigNext == config_parse_path \/ path_touch

ConfigSpec == ConfigInit /\ [][ConfigNext]_vars

\* the paths config_parse_path has put in front of the list
Added == SubSeq(cfg.paths, 1, Len(cfg.paths) - Len(cfg.old))

\* the path at the address a leads from in to out
Leads(a, in, out) == cfg.heap[a].in = in /\ cfg.heap[a].out = out

\* C29: parsing an enabled path setting {in=A, out=B, reverse=true} adds
\* exactly two paths, A => B and B => A, whose state is independent: changing
\* a field or a counter of one changes no other; with reverse=false exactly
\* one path A => B is added, with enabled=false none.
C29_ReversePath ==
    /\ cfg.pc \in {"parsed", "touched"} =>
          /\ SubSeq(cfg.paths, Len(Added) + 1, Len(cfg.paths)) = cfg.old
          /\ Len(Added) = IF ~cfg.setting.enabled THEN 0
                          ELSE IF cfg.setting.reverse THEN 2 ELSE 1
          /\ Len(Added) = 1 => Leads(Added[1], cfg.setting.in, cfg.setting.out)
          /\ Len(Added) = 2 =>
                /\ Added[1] # Added[2]
                /\ Leads(Added[2], cfg.setting.in, cfg.setting.out)
                /\ Leads(Added[1], cfg.setting.out, cfg.setting.in)
    /\ cfg.pc = "touched" =>
          /\ ParsedPaths[cfg.touched] # cfg.before[cfg.touched]
          /\ \A k \in DOMAIN cfg.paths :
                k # cfg.touched => ParsedPaths[k] = cfg.before[k]

\* {in=A, out=B, reverse=true} was parsed into a list that held a path, and
\* the reverse path has counted a skipped sample
C29_Witness ==
    /\ cfg.pc = "touched"
    /\ cfg.setting = [in |-> "A", out |-> "B", enabled |-> TRUE, reverse |-> TRUE]
    /\ Len(cfg.paths) = 3
    /\ cfg.touched = 1
    /\ cfg.heap[cfg.paths[1]].skipped = 1
    /\ cfg.heap[cfg.paths[2]].skipped = 0

\* ================================================================ path_start, step by step
\* a path_start that spawns the receive thread before it runs the hooks' start
path_start_threads_first(rate) ==
    IF rate # 0 THEN <<"recv", "hooks", "timer", "send", "state">>
    ELSE <<"recv", "hooks", "state">>

\* the steps of path_start in their order: the hooks' start, at a rate above 0
\* the timer and the send thread, then the state and the receive thread
path_start_steps(rate) ==
    IF rate # 0 THEN <<"hooks", "timer", "send", "state", "recv">>
    ELSE <<"hooks", "state", "recv">>

\* the call of path_start for p: the steps done, the timer, what it returned
NoStart == [steps |-> <<>>, tfd |-> -1, ret |-> "none"]
path_start_call(p) == IF "start" \in DOMAIN st[p] THEN st[p].start ELSE NoStart

\* st with the call of path_start for p set to call, and p's send thread at pc
path_start_set(p, call, pc) ==
    [st EXCEPT ![p] = [pc |-> pc, stop |-> st[p].stop, start |-> call]]

\* path_start, its next step; a failing start hook returns -1, a timer that
\* cannot be created is fatal (serror)
path_start_step(p) ==
    LET call  == path_start_call(p)
        steps == path_start_steps(path[p].rate)
        step  == steps[Len(call.steps) + 1]
        done  == Append(call.steps, step)
    IN /\ UNCHANGED elsewhere
       /\ IF call.steps = <<>> THEN path[p].state = PATH_CREATED /\ gh[p].prepared
          ELSE call.ret = "none" /\ Len(call.steps) < Len(steps)
       /\ \/ /\ step = "hooks"
             /\ \E ret \in {0, 1} :
                   st' = path_start_set(p, [call EXCEPT !.steps = done,
                              !.ret = IF ret # 0 THEN "-1" ELSE "none"], st[p].pc)
             /\ UNCHANGED <<node, path, rt, pw, gh>>
          \/ /\ step = "timer"
             /\ \E tfd \in {-1, 3} :
                   /\ st' = path_start_set(p, [call EXCEPT !.steps = done, !.tfd = tfd,
                                  !.ret = IF tfd < 0 THEN "fatal" ELSE "none"], st[p].pc)
                   /\ path' = IF tfd < 0 THEN [path EXCEPT ![p].state = PATH_STOPPED]
                               ELSE path
             /\ UNCHANGED <<node, rt, pw, gh>>
          \/ /\ step = "send"
             /\ st' = path_start_set(p, [call EXCEPT !.steps = done], "wait")
             /\ UNCHANGED <<node, path, rt, pw, gh>>
          \/ /\ step = "state"
             /\ st' = path_start_set(p, [call EXCEPT !.steps = done], st[p].pc)
             /\ path' = [path EXCEPT ![p].state = PATH_RUNNING]
             /\ UNCHANGED <<node, rt, pw, gh>>
          \/ /\ step = "recv"
             /\ st' = path_start_set(p, [call EXCEPT !.steps = done,
                            !.ret = IF Len(done) = Len(steps) THEN "0" ELSE "none"], st[p].pc)
             /\ rt' = [rt EXCEPT ![p] = [pc |-> "get", ready |-> 0,
                            smps |-> [i \in 1..node[path[p].in].vectorize |-> 0],
                            recv |-> 0, enqueue |-> 0, enqueued |-> 0]]
             /\ UNCHANGED <<node, path, pw, gh>>

StartNext == \E p \in Paths : path_prepare(p) \/ path_start_step(p)

StartSpec == Init /\ [][StartNext]_vars

MaxElements == 4
NULL == 0

\* alloc(sizeof(struct list_elm)): a zeroed element at the next address
alloc(l) == Len(l.elm) + 1
list_elm == [ptr |-> NULL, priority |-> 0, next |-> NULL, prev |-> NULL]

\* the priorities list_insert is called with
Priorities == 1..3

\* list_init: an empty list; added: the pointers given to it so far
ListInit ==
    /\ EngineOff
    /\ lists = [elm |-> <<>>, length |-> 0, head |-> NULL, tail |-> NULL,
                added |-> <<>>, pushed |-> FALSE]
    /\ codec = Off /\ daemon = Off /\ mqtt = Off /\ ngsi = Off /\ opal = Off
    /\ cfg = Off /\ mapping = Off

\* list_push(l, p)
list_push(l, p) ==
    LET e == alloc(l)
        new == Append(l.elm, [list_elm EXCEPT !.ptr = p, !.prev = l.tail])
        linked == IF l.tail # NULL THEN [new EXCEPT ![l.tail].next = e] ELSE new
        backed == IF l.head # NULL THEN [linked EXCEPT ![l.head].prev = e] ELSE linked
    IN [l EXCEPT !.elm = backed,
                 !.head = IF l.head # NULL THEN l.head ELSE e,
                 !.tail = e,
                 !.length = l.length + 1]

\* for (d = l->head; d && d->priority < prio; d = d->next): the element the
\* search stops at, after at most left steps
RECURSIVE list_insert_search(_, _, _, _)
list_insert_search(l, d, prio, left) ==
    IF d = NULL \/ left = 0 THEN NULL
    ELSE IF l.elm[d].priority < prio THEN list_insert_search(l, l.elm[d].next, prio, left - 1)
    ELSE d

\* list_insert(l, prio, p)
list_insert(l, prio, p) ==
    LET e == alloc(l)
        d == list_insert_search(l, l.head, prio, Len(l.elm))
        new == Append(l.elm, [list_elm EXCEPT !.ptr = p, !.priority = prio, !.next = d,
                                 !.prev = IF d # NULL THEN l.elm[d].prev ELSE l.tail])
    IN IF d # NULL
       THEN IF d = l.head
            THEN [l EXCEPT !.elm = new, !.head = e, !.length = l.length + 1]
            ELSE [l EXCEPT !.elm = [new EXCEPT ![d].prev = e], !.length = l.length + 1]
       ELSE IF l.length = 0
            THEN [l EXCEPT !.elm = new, !.head = e, !.tail = e, !.length = l.length + 1]
            ELSE [l EXCEPT !.elm = [new EXCEPT ![l.tail].next = e], !.tail = e,
                           !.length = l.length + 1]

\* a call of list_push with the next pointer
push ==
    /\ Len(lists.elm) < MaxElements
    /\ LET p == Len(lists.added) + 1
       IN lists' = [list_push(lists, p) EXCEPT !.added = Append(lists.added, p),
                                               !.pushed = TRUE]
    /\ UNCHANGED <<engine, codec, daemon, mqtt, ngsi, opal, cfg, mapping>>

\* a call of list_insert with the next pointer and any priority
insert ==
    /\ Len(lists.elm) < MaxElements
    /\ \E prio \in Priorities :
          LET p == Len(lists.added) + 1
          IN lists' = [list_insert(lists, prio, p) EXCEPT !.added = Append(lists.added, p)]
    /\ UNCHANGED <<engine, codec, daemon, mqtt, ngsi, opal, cfg, mapping>>

ListNext == push \/ insert

ListSpec == ListInit /\ [][ListNext]_vars

\* the elements met by following next from e, at most left of them
RECURSIVE Visited(_, _)
Visited(e, left) ==
    IF e = NULL \/ left = 0 THEN <<>>
    ELSE <<e>> \o Visited(lists.elm[e].next, left - 1)

\* C32: after any calls of list_push and list_insert on an initialised list,
\* following next from head visits exactly length elements, ends at tail and
\* meets every added pointer exactly once; in a list built with list_insert
\* alone the priorities visited do not decrease.
C32_ListStructure ==
    LET v == Visited(lists.head, MaxElements + 1)
    IN /\ Len(v) = lists.length
       /\ lists.length > 0 => v[Len(v)] = lists.tail
       /\ \A k \in DOMAIN lists.added :
             Cardinality({i \in DOMAIN v : lists.elm[v[i]].ptr = lists.added[k]}) = 1
       /\ ~lists.pushed =>
             \A i \in 1..(Len(v) - 1) :
                lists.elm[v[i]].priority <= lists.elm[v[i + 1]].priority

\* ================================================================ opal_start
\* the IDs of the send and receive blocks of a model
MaxID == 3
IDs == 1..MaxID

\* opal_type_start has read the lists of send and receive IDs of the model;
\* the struct opal of the node is zero
OpalStartInit ==
    /\ EngineOff
    /\ \E sendIDs \in SUBSET IDs, recvIDs \in SUBSET IDs :
          opal = [pc |-> "parse", sendIDs |-> sendIDs, recvIDs |-> recvIDs,
                  json |-> [send_id |-> 0, recv_id |-> 0],
                  o |-> [sendID |-> 0, recvID |-> 0, sequenceNo |-> 0],
                  ret |-> "none"]
    /\ codec = Off /\ daemon = Off /\ mqtt = Off /\ ngsi = Off /\ cfg = Off
    /\ lists = Off /\ mapping = Off

\* json_unpack_ex with "send_id", &o->sendID, "recv_id", &o->sendID: the
\* targets are written in the order of the format
opal_parse_unpack(o, json) ==
    LET first == [o EXCEPT !.sendID = json.send_id]
    IN [first EXCEPT !.sendID = json.recv_id]

\* opal_parse of a node configuration with send_id and recv_id
opal_parse ==
    /\ opal.pc = "parse"
    /\ \E send_id \in IDs, recv_id \in IDs :
          LET json == [send_id |-> send_id, recv_id |-> recv_id]
          IN opal' = [opal EXCEPT !.pc = "start", !.json = json,
                                  !.o = opal_parse_unpack(opal.o, json)]
    /\ UNCHANGED <<engine, codec, daemon, mqtt, ngsi, cfg, lists, mapping>>

\* the searches of opal_start: sfound and rfound
opal_start_sfound(o, sendIDs) == Cardinality({i \in sendIDs : i = o.sendID})
opal_start_rfound(o, recvIDs) == Cardinality({i \in recvIDs : i = o.sendID})

\* opal_start: what it throws, or 0
opal_start ==
    /\ opal.pc = "start"
    /\ opal' = [opal EXCEPT !.pc = "started",
            !.ret = IF opal_start_sfound(opal.o, opal.sendIDs) = 0 THEN "Invalid send_id"
                    ELSE IF opal_start_rfound(opal.o, opal.recvIDs) = 0 THEN "Invalid recv_id"
                    ELSE "0",
            !.o.sequenceNo = 0]
    /\ UNCHANGED <<engine, codec, daemon, mqtt, ngsi, cfg, lists, mapping>>

OpalStartNext == opal_parse \/ opal_start

OpalStartSpec == OpalStartInit /\ [][OpalStartNext]_vars

\* C33: opal_start accepts a node only if its configured send_id is one of
\* the model's send IDs and its configured recv_id one of the model's
\* receive IDs; a configuration whose recv_id is no receive ID (its send_id
\* being a send ID) is rejected with the invalid recv_id error.
C33_ValidIDs ==
    opal.pc = "started" =>
        /\ opal.ret = "0" =>
              (opal.json.send_id \in opal.sendIDs /\ opal.json.recv_id \in opal.recvIDs)
        /\ (opal.json.send_id \in opal.sendIDs /\ opal.json.recv_id \notin opal.recvIDs) =>
              opal.ret = "Invalid recv_id"

\* ================================================================ mqtt_stop and the loop thread
\* the nodes of type mqtt
MqttNodes == {1, 2}

\* mqtt_type_start: the list of clients is empty and the thread is at the head
\* of its for loop; no node is started; late: the nodes whose client the
\* thread has worked on after their mqtt_stop returned
MqttStopInit ==
    /\ EngineOff
    /\ mqtt = [clients |-> <<>>,
               thread |-> [pc |-> "for", i |-> 0, node |-> 0],
               nodes |-> [n \in MqttNodes |-> [state |-> "stopped", connected |-> FALSE,
                                              stops |-> 0]],
               late |-> {}]
    /\ codec = Off /\ daemon = Off /\ ngsi = Off /\ opal = Off /\ cfg = Off
    /\ lists = Off /\ mapping = Off

\* vlist_push, vlist_index and vlist_remove, vlist_at and vlist_length
vlist_push(l, n) == Append(l, n)
vlist_remove(l, n) == SelectSeq(l, LAMBDA e : e # n)
vlist_at(l, i) == IF i < Len(l) THEN l[i + 1] ELSE 0
vlist_length(l) == Len(l)

\* mqtt_start(n): the client connects and is added to the list, or the
\* connection fails and mqtt_start returns the error
mqtt_start(n) ==
    /\ mqtt.nodes[n].state = "stopped"
    /\ mqtt.nodes[n].stops = 0
    /\ \E ret \in {0, 1} :
          IF ret # 0 THEN UNCHANGED mqtt
          ELSE mqtt' = [mqtt EXCEPT !.nodes[n].state = "started",
                                    !.nodes[n].connected = TRUE,
                                    !.clients = vlist_push(@, n)]
    /\ UNCHANGED <<engine, codec, daemon, ngsi, opal, cfg, lists, mapping>>

\* mqtt_stop(n): the client leaves the list, then disconnects
mqtt_stop(n) ==
    /\ mqtt.nodes[n].state = "started"
    /\ mqtt' = [mqtt EXCEPT !.nodes[n].state = "stopped",
                             !.nodes[n].connected = FALSE,
                             !.nodes[n].stops = @ + 1,
                             !.clients = vlist_remove(@, n)]
    /\ UNCHANGED <<engine, codec, daemon, ngsi, opal, cfg, lists, mapping>>

\* the nodes the thread has worked on late, the thread now calling into the
\* client of node n
mqtt_late(n) ==
    IF mqtt.nodes[n].state = "stopped" THEN mqtt.late \cup {n} ELSE mqtt.late

\* the loop thread, one statement at a time: i < vlist_length(&clients);
\* node = vlist_at(&clients, i), which is NULL past the end, and node->_vd;
\* mosquitto_loop; mosquitto_reconnect; mosquitto_loop again; i++
mosquitto_loop_thread ==
    LET t == mqtt.thread
        c == mqtt.nodes[t.node]
    IN /\ \/ /\ t.pc = "for"
             /\ mqtt' = [mqtt EXCEPT !.thread =
                    IF t.i < vlist_length(mqtt.clients) THEN [t EXCEPT !.pc = "at"]
                    ELSE [t EXCEPT !.i = 0]]
          \/ /\ t.pc = "at"
             /\ mqtt' = [mqtt EXCEPT !.thread =
                    IF vlist_at(mqtt.clients, t.i) = 0 THEN [t EXCEPT !.pc = "fault"]
                    ELSE [t EXCEPT !.pc = "loop", !.node = vlist_at(mqtt.clients, t.i)]]
          \/ /\ t.pc = "loop"
             /\ \E ret \in IF c.connected THEN {0, 1} ELSE {1} :
                   mqtt' = [mqtt EXCEPT !.late = mqtt_late(t.node),
                       !.thread = IF ret # 0 THEN [t EXCEPT !.pc = "reconnect"]
                                  ELSE [t EXCEPT !.pc = "for", !.i = @ + 1]]
          \/ /\ t.pc = "reconnect"
             /\ \E ret \in {0, 1} :
                   mqtt' = [mqtt EXCEPT !.late = mqtt_late(t.node),
                       !.nodes[t.node].connected = (ret = 0),
                       !.thread = [t EXCEPT !.pc = "loop_again"]]
          \/ /\ t.pc = "loop_again"
             /\ mqtt' = [mqtt EXCEPT !.late = mqtt_late(t.node),
                       !.thread = [t EXCEPT !.pc = "for", !.i = @ + 1]]
       /\ UNCHANGED <<engine, codec, daemon, ngsi, opal, cfg, lists, mapping>>

MqttStopNext ==
    \/ mosquitto_loop_thread
    \/ \E n \in MqttNodes : mqtt_start(n) \/ mqtt_stop(n)

MqttStopSpec == MqttStopInit /\ [][MqttStopNext]_vars

\* C34: after mqtt_stop(n) has returned, the loop thread never again runs the
\* mosquitto loop or a reconnect for the client of n, however mqtt_stop and
\* the mqtt_start of other nodes interleave with the thread's iteration.
C34_NoLoopAfterStop == mqtt.late = {}

\* ================================================================ the MQTT subscriber
\* the samples of the pool of a node
MaxPool == 3

\* mqtt_start: pool_init and queue_signalled_init; the queue has MaxQueued slots
MqttCbInit ==
    /\ EngineOff
    /\ \E vectorize \in {1, 2} :
          mqtt = [vectorize |-> vectorize, pool |-> pool_init_mmap(MaxPool),
                  queue |-> <<>>, cb |-> "none"]
    /\ codec = Off /\ daemon = Off /\ ngsi = Off /\ opal = Off /\ cfg = Off
    /\ lists = Off /\ mapping = Off

\* smps[] after sample_alloc_many returned got: the slots behind the samples
\* obtained were never written (0)
mqtt_message_cb_smps(got, vectorize) ==
    [i \in 1..vectorize |-> IF i <= got.cnt THEN got.smps[i] ELSE 0]

\* queue_signalled_push_many: the samples that fit are appended
queue_signalled_push_many(queue, smps, cnt) ==
    LET pushed == Min(cnt, MaxQueued - Len(queue))
    IN [cnt |-> pushed, queue |-> queue \o SubSeq(smps, 1, pushed)]

\* sample_decref_many: the samples whose count falls to 0 return to the pool
sample_decref_many(pool, smps, cnt) ==
    pool \o SelectSeq(SubSeq(smps, 1, cnt), LAMBDA smp : smp # 0)

\* mqtt_message_cb for a message that io_sscan takes for scan samples (below
\* 0: an invalid payload)
mqtt_message_cb ==
    /\ \E scan \in -1..mqtt.vectorize :
          LET got == sample_get_many(mqtt.pool, mqtt.vectorize)
              smps == mqtt_message_cb_smps(got, mqtt.vectorize)
              queued == queue_signalled_push_many(mqtt.queue, smps, mqtt.vectorize)
          IN IF got.cnt <= 0
             THEN mqtt' = [mqtt EXCEPT !.cb = "underrun"]
             ELSE IF scan < 0
             THEN mqtt' = [mqtt EXCEPT !.cb = "invalid", !.pool = got.pool]
             ELSE IF scan = 0
             THEN mqtt' = [mqtt EXCEPT !.cb = "empty",
                      !.pool = sample_decref_many(got.pool, smps, mqtt.vectorize)]
             ELSE mqtt' = [mqtt EXCEPT
                      !.cb = IF queued.cnt < mqtt.vectorize THEN "failed" ELSE "enqueued",
                      !.pool = got.pool, !.queue = queued.queue]
    /\ UNCHANGED <<engine, codec, daemon, ngsi, opal, cfg, lists, mapping>>

\* mqtt_read of cnt samples: they are pulled, copied and released
mqtt_read_pulled ==
    /\ \E cnt \in 1..2 :
          LET pulled == Min(cnt, Len(mqtt.queue))
          IN mqtt' = [mqtt EXCEPT
                 !.cb = "none",
                 !.queue = SubSeq(@, pulled + 1, Len(@)),
                 !.pool = sample_decref_many(@, mqtt.queue, pulled)]
    /\ UNCHANGED <<engine, codec, daemon, ngsi, opal, cfg, lists, mapping>>

MqttCbNext == mqtt_message_cb \/ mqtt_read_pulled

MqttCbSpec == MqttCbInit /\ [][MqttCbNext]_vars

\* C35: every Sample the message callback takes from the pool of the node is,
\* when the callback returns, in the queue of the node or back in the pool,
\* on every path through the callback: pool underrun with partial
\* allocation, invalid payload, empty message, and an enqueue that accepts
\* fewer than vectorize Samples.
C35_SubscriberConservation ==
    \A smp \in 1..MaxPool :
        Cardinality({i \in DOMAIN mqtt.pool : mqtt.pool[i] = smp})
        + Cardinality({i \in DOMAIN mqtt.queue : mqtt.queue[i] = smp}) = 1

\* ================================================================ mapping
\* the most data slots of a Sample
MaxSlots == 3

\* the ids of a timestamp entry and of a header entry, and what the id of a
\* stats entry may read as when it is taken for the id of a timestamp entry
MAPPING_TS == {"MAPPING_TS_ORIGIN", "MAPPING_TS_RECEIVED", "MAPPING_TS_SEND"}
MAPPING_HDR == {"MAPPING_HDR_SEQUENCE", "MAPPING_HDR_LENGTH"}
MAPPING_STATS == {"MAPPING_STATS_TYPE_TOTAL", "MAPPING_STATS_TYPE_MEAN"}

\* mapping_parse_str: the entries it returns 0 for; first and last are the
\* bounds of "data[first-last]", and "data" alone has length 0
mapping_parse_str ==
    [type : {"MAPPING_TYPE_STATS"}, length : {1}, id : MAPPING_STATS, data_offset : {0}]
    \cup [type : {"MAPPING_TYPE_HDR"}, length : {1}, id : MAPPING_HDR, data_offset : {0}]
    \cup [type : {"MAPPING_TYPE_TS"}, length : {2}, id : MAPPING_TS, data_offset : {0}]
    \cup {[type |-> "MAPPING_TYPE_DATA", length |-> last - first + 1, id |-> "",
           data_offset |-> first] : first \in 0..1, last \in 1..2}
    \cup {[type |-> "MAPPING_TYPE_DATA", length |-> 0, id |-> "", data_offset |-> 0]}

\* a remapped Sample of some capacity and length, an original Sample of some
\* length, and the offset in the remapped Sample the next entry is given
MappingInit ==
    /\ EngineOff
    /\ \E offset \in 0..MaxSlots, capacity \in 1..MaxSlots, original \in 0..MaxSlots :
       \E length \in 0..capacity :
          mapping = [pc |-> "parse",
                     me |-> [type |-> "", length |-> 0, id |-> "", data_offset |-> 0,
                             offset |-> offset],
                     remapped |-> [capacity |-> capacity, length |-> length],
                     original |-> [length |-> original],
                     written |-> {}, ret |-> 0]
    /\ codec = Off /\ daemon = Off /\ mqtt = Off /\ ngsi = Off /\ opal = Off
    /\ cfg = Off /\ lists = Off

\* mapping_parse of a string that mapping_parse_str accepts
mapping_parse ==
    /\ mapping.pc = "parse"
    /\ \E me \in mapping_parse_str :
          mapping' = [mapping EXCEPT !.pc = "update",
              !.me = [type |-> me.type, length |-> me.length, id |-> me.id,
                      data_offset |-> me.data_offset, offset |-> mapping.me.offset]]
    /\ UNCHANGED <<engine, codec, daemon, mqtt, ngsi, opal, cfg, lists>>

\* case MAPPING_TYPE_TS, entered at off with the id ts: the slots written and
\* what is returned
mapping_update_ts(ts, off) ==
    IF ts \in {"MAPPING_TS_RECEIVED", "MAPPING_TS_ORIGIN"}
    THEN [written |-> {off, off + 1}, ret |-> 0]
    ELSE [written |-> {}, ret |-> -1]

\* case MAPPING_TYPE_STATS: one slot is written, and the case runs on into
\* case MAPPING_TYPE_TS, where the id of the stats entry is read as ts
mapping_update_stats(ts, off) ==
    [written |-> {off} \cup mapping_update_ts(ts, off + 1).written,
     ret |-> mapping_update_ts(ts, off + 1).ret]

\* case MAPPING_TYPE_DATA: len slots from off on
mapping_update_data(len, off) ==
    [written |-> {off + k : k \in 0..(len - 1)}, ret |-> 0]

\* mapping_update(me, remapped, original, s)
mapping_update ==
    /\ mapping.pc = "update"
    /\ \E ts \in MAPPING_TS :
          LET me == mapping.me
              len == IF me.length = 0 THEN mapping.original.length ELSE me.length
              off == me.offset
              done == IF me.type = "MAPPING_TYPE_STATS" THEN mapping_update_stats(ts, off)
                      ELSE IF me.type = "MAPPING_TYPE_TS" THEN mapping_update_ts(me.id, off)
                      ELSE IF me.type = "MAPPING_TYPE_HDR" THEN [written |-> {off}, ret |-> 0]
                      ELSE mapping_update_data(len, off)
          IN IF len + off > mapping.remapped.capacity
             THEN mapping' = [mapping EXCEPT !.pc = "updated", !.ret = -1]
             ELSE mapping' = [mapping EXCEPT
                      !.pc = "updated", !.ret = done.ret, !.written = done.written,
                      !.remapped.length = IF len + off > @ THEN len + off ELSE @]
    /\ UNCHANGED <<engine, codec, daemon, mqtt, ngsi, opal, cfg, lists>>

MappingNext == mapping_parse \/ mapping_update

MappingSpec == MappingInit /\ [][MappingNext]_vars

\* C36: mapping_update writes only the data slots [offset, offset + len) of
\* the remapped Sample, len being the length of the entry (or of the original
\* when that is 0) and offset + len at most the capacity; a stats entry or a
\* header entry writes exactly one slot, a timestamp entry exactly two, and
\* remapped.length never exceeds remapped.capacity.
C36_SlotsWritten ==
    LET me == mapping.me
        len == IF me.length = 0 THEN mapping.original.length ELSE me.length
    IN /\ mapping.remapped.length <= mapping.remapped.capacity
       /\ mapping.written \subseteq {me.offset + k : k \in 0..(len - 1)}
       /\ mapping.written # {} => me.offset + len <= mapping.remapped.capacity
       /\ (mapping.pc = "updated" /\ mapping.ret = 0) =>
             /\ me.type \in {"MAPPING_TYPE_STATS", "MAPPING_TYPE_HDR"} =>
                   Cardinality(mapping.written) = 1
             /\ me.type = "MAPPING_TYPE_TS" => Cardinality(mapping.written) = 2

\* ================================================================ ngsi_close
\* C37: ngsi_close returns 0 when the DELETE updateContext request is
\* answered with HTTP status 200, and -1 for any other status.
C37_CloseReturn ==
    ngsi.state = "closed" =>
        LET delete == ngsi.requests[Len(ngsi.requests)]
        IN /\ delete.by = "close"
           /\ delete.updateAction = "DELETE"
           /\ ngsi.ret = IF delete.code = HTTP_OK THEN 0 ELSE -1

\* ================================================================ the cursors of two paths
\* a step of the threads of path p, or of its path_write
StepOf(p) == rt[p]' # rt[p] \/ pw[p]' # pw[p] \/ st[p]' # st[p]

\* C38: the cursors of a path's queue belong to that path alone: when one
\* node is the source of two paths, or the destination of two paths, a push
\* or a pull of one path never changes the write cursor or a reader cursor
\* that the queue of the other path uses.
C38_OwnCursors ==
    [][\A p \in Paths, q \in Paths :
          (p # q /\ path[q].state # PATH_INVALID /\ StepOf(p)) =>
              (Received(q)' = Received(q) /\ Readers(q)' = Readers(q))]_vars

\* ================================================================ the base of a resend
\* C39: in a resend the index from which the send routine peeks is never
\* negative, and the range peeked holds only Samples that were enqueued and
\* are not released: also when fewer Samples than the vectorize of the
\* destination were received so far, and when the vectorize of source and
\* destination differ.
C39_ResendBase ==
    \A p \in Paths :
        (st[p].pc = "write" /\ gh[p].resend /\ pw[p].phase = "get"
                            /\ pw[p].i \in DOMAIN path[p].destinations) =>
            LET n    == path[p].destinations[pw[p].i]
                cnt  == node[n].vectorize
                base == path_write_base(TRUE, Received(p), cnt, node[n].sent)
                g    == queue_get_many(path[p].queue, cnt, base, Received(p), MinReader(p))
            IN /\ base >= 0
               /\ Range(g.smps) \subseteq Range(gh[p].pushedsmps)
               /\ Range(g.smps) \cap Range(path[p].pool) = {}

\* ---------------------------------------------------------------- the declared frame size
\* the bytes deserialize(Frame) reads before it looks at the frame size:
\* sync, framesize, idcode, soc and fracsec
HeaderLength == 14

\* the frame sizes a sender declares in bytes 3 and 4 of what it wrote: none,
\* less than header and CRC, the bytes written, more than the buffer holds
FrameSizes(written) == {0, 10, 15, written, written + 2, written + 3}

\* the bytes b with framesize in the frame size field and, forged, with the
\* CRC of the first framesize - 2 bytes where a frame of that size carries it
resized(b, framesize, forged) ==
    Let([i \in 1..Len(b) |->
            IF i \in {3, 4} THEN htons(framesize)[i - 2] ELSE b[i]], LAMBDA sized :
    IF forged /\ framesize >= 2 /\ framesize <= Len(b)
    THEN Let(htons(calculate_crc(sized, 0, framesize - 2)), LAMBDA crc :
         [i \in 1..Len(b) |->
            IF i \in {framesize - 1, framesize} THEN crc[i - framesize + 2]
            ELSE sized[i]])
    ELSE sized)

\* auto contentsize = framesize - sizeof(uint16_t), and, after the header,
\* auto messagesize = contentsize - result: both size_t, kept here as the
\* integers that (ssize_t) makes of them
deserialize_contentsize(framesize) == framesize - 2
deserialize_messagesize(framesize) == deserialize_contentsize(framesize) - HeaderLength

\* calculate_crc(start, contentsize) takes contentsize as a uint16_t and reads
\* that many bytes from start on: this is the first byte it reads that the
\* buffer of length bytes does not hold, if there is one
calculate_crc_outside(length, framesize) ==
    deserialize_contentsize(framesize) % 65536 > length

\* result = slice(-result, contentsize) after the header went through
deserialize_sliced(length, framesize) ==
    /\ length >= HeaderLength
    /\ is_ok(slice([Parser(0, length) EXCEPT !.cursor = HeaderLength],
                   -HeaderLength, deserialize_contentsize(framesize)))

\* the parser deserialize(Frame) hands to deserialize(Message):
\* Parser((unsigned char *) require(messagesize), messagesize)
deserialize_subparser(framesize) ==
    Parser(HeaderLength, deserialize_messagesize(framesize))

\* deserialize(Header) does h->data.resize(remaining()), remaining() a size_t:
\* with the cursor behind the end this is a size no vector takes
deserialize_Header_throws(wire, framesize) ==
    /\ wire[1] = 170
    /\ BitAnd(wire[2], 240) = 16
    /\ remaining(deserialize_subparser(framesize)) < 0

\* a Parser deserializes the bytes that were written, with the frame size
\* the sender declared. What deserialize(Frame) does up to the message:
\* the header, the slice, the CRC, sync and type
deserialize_sized ==
    /\ codec.pc = "bytes"
    /\ is_ok(codec.r)
    /\ \E framesize \in FrameSizes(codec.written), forged \in BOOLEAN,
          bound \in {codec.context, nullopt} :
       \E wire \in {resized(SubSeq(codec.buf, 1, codec.written), framesize, forged)} :
       LET parsed(result, out, at) ==
              [pc |-> "sized", frame |-> codec.frame, context |-> codec.context,
               buf |-> codec.buf, written |-> codec.written, r |-> codec.r,
               framesize |-> framesize, forged |-> forged, wire |-> wire,
               bound |-> bound, result |-> result, out |-> out, at |-> at]
       IN IF /\ deserialize_sliced(Len(wire), framesize)
             /\ calculate_crc_outside(Len(wire), framesize)
          \* the CRC is taken over bytes behind the buffer: a fault, or a
          \* checksum of whatever lies there
          THEN \E at \in {"fault", "outside"} :
                  codec' = parsed(parser_error(InvalidChecksum), codec.frame, at)
          ELSE IF /\ deserialize_sliced(Len(wire), framesize)
                  /\ deserialize_Header_throws(wire, framesize)
          \* std::length_error leaves deserialize(Frame) with no Result
          THEN codec' = parsed(parser_error(Other), codec.frame, "throw")
          ELSE \E d \in {deserialize_Frame(wire, Len(wire), bound)} :
                  codec' = parsed(d.r, d.f, d.at)
    /\ UNCHANGED <<engine, daemon, mqtt, ngsi, opal, cfg, lists, mapping>>

FrameSizeNext == serialize \/ deserialize_sized

FrameSizeSpec == CodecInit /\ [][FrameSizeNext]_vars

\* C40: a frame whose declared size is less than header and CRC (16 bytes) or
\* more than the buffer holds is answered with an error: no byte outside the
\* buffer is read, nothing is thrown, and the cursor of the parser of the
\* message stays between its start and its end
C40_DeclaredSize ==
    (/\ codec.pc = "sized"
     /\ \/ codec.framesize < HeaderLength + 2
        \/ codec.framesize > Len(codec.wire))
    => /\ codec.at \notin {"fault", "outside", "throw"}
       /\ ~is_ok(codec.result)
       /\ codec.at \in {"message", "crc", "checksum", "return"}
          => Let(deserialize_subparser(codec.framesize), LAMBDA p :
                 p.start <= p.cursor /\ p.cursor <= p.end)

====
